---- MODULE Spec2Model ----
(***************************************************************************)
(* Model of the PICASO 3D printer protocol client                          *)
(* (custom_components/picaso_3d/api.py): the frame codec, the UDP          *)
(* request/response transport with reassembly and timeouts, the per-device *)
(* request lock, the identity and state decoders, the cached capability   *)
(* properties, and discovery (search_printers).                            *)
(*                                                                         *)
(* Byte strings are sequences of integers 0..255.  Optional values (Python *)
(* None) are sequences of length at most one: <<>> is None, <<v>> is v.    *)
(* The host byte order is little-endian.                                   *)
(*                                                                         *)
(* Tasks are asyncio tasks on one event loop: an action is the code a task *)
(* runs between two suspension points, except that the reassembly loop is  *)
(* split at every read_payload call (one datagram per step).               *)
(***************************************************************************)
EXTENDS Integers, Sequences, FiniteSets, TLC

VARIABLES
    pc,         \* task -> position in its coroutine
    req,        \* task -> the arguments of its send_request call
    op,         \* task -> name of the guarded operation it called ("raw": send_request itself)
    locked,     \* request_lock._locked
    waiters,    \* request_lock._waiters: tasks whose future is in the deque, in order
    fut,        \* task -> state of its future in request_lock._waiters
    sock,       \* task -> state of the UDP socket of its exchange
    transport,  \* task -> state of the datagram endpoint of its exchange
    queue,      \* task -> protocol.payload_queue of its exchange
    payload,    \* task -> accumulation buffer of _read_single_response
    parsed,     \* task -> optional header parsed for the frame being reassembled
    responses,  \* task -> list of ParsedPayload collected by send_request
    outcome,    \* task -> how its call ended ("none" while running)
    result,     \* task -> the value its send_request returned
    sent,       \* task -> datagrams the exchange handed to sendto (in order)
    delivered,  \* task -> number of non-empty datagrams the network delivered
    raised,     \* task -> what _read_single_response last raised ("none": nothing)
    nparse,     \* task -> header parses done for the frame being reassembled
    declared,   \* task -> declared total_length of each collected frame
    consumed,   \* task -> the bytes read_payload returned during the call, in order
    dev,        \* the Picaso3DPrinter object the tasks share
    stInput,    \* state decoder: the response and the device flags it is run on
    stResult,   \* state decoder: what get_printer_state returned or raised
    evInput,    \* event parser: the protocol major and the bytes of one event slot
    evResult,   \* event parser: what _parse_event returned
    idInput,    \* identity decoder: the device before the call, the protocol version and the data
    idResult,   \* identity decoder: how _apply_printer_info ended, the device after it, the flags read
    cdInput,    \* frame codec: the arguments protocol_major, protocol_minor, command_code, data of send_request
    cdResult,   \* frame codec: how far send_request got, the frame, its socket, what it sent, the header read back
    update_methods,  \* coordinator: the dict _update_methods (its entry table, in insertion order)
    interest,        \* coordinator: entities whose last completed call was subscribe_entity
    lastCall,        \* coordinator: the last subscribe_entity / unsubscribe_entity call and how it ended
    cycle,           \* coordinator: the running or last call of _async_update_data
    searchPc,        \* search_printers: position in the coroutine
    searchSock,      \* search_printers: state of the listener socket
    searchTransport, \* search_printers: state of the datagram endpoint
    target,          \* search_printers: the dict "responses" the collector fills, in insertion order
    received,        \* search_printers: number of datagrams that arrived at the listener socket
    attempts,        \* search_printers: the argument attempts
    attempt,         \* search_printers: probes handed to sendto so far
    searchOutcome,   \* search_printers: how the call ended ("none" while running)
    searchResult     \* search_printers: the list it returned

vars == <<pc, req, op, locked, waiters, fut, sock, transport, queue, payload,
          parsed, responses, outcome, result, sent, delivered, raised,
          nparse, declared, consumed, dev, stInput, stResult, evInput, evResult,
          idInput, idResult, cdInput, cdResult,
          update_methods, interest, lastCall, cycle,
          searchPc, searchSock, searchTransport, target, received, attempts,
          attempt, searchOutcome, searchResult>>

lockVars == <<locked, waiters, fut>>
histVars == <<sent, delivered, raised, nparse, declared, consumed>>
evVars == <<evInput, evResult>>
searchVars == <<searchPc, searchSock, searchTransport, target, received,
                attempts, attempt, searchOutcome, searchResult>>
idVars == <<idInput, idResult>>
cdVars == <<cdInput, cdResult>>
coVars == <<update_methods, interest, lastCall, cycle>>
decVars == <<stInput, stResult, evVars, idVars, cdVars, coVars, searchVars>>
devVars == <<pc, req, op, locked, waiters, fut, sock, transport, queue, payload,
             parsed, responses, outcome, result, sent, delivered, raised,
             nparse, declared, consumed, dev>>

(***************************************************************************)
(* Bounds of the model.                                                    *)
(***************************************************************************)
MaxQueue == 2       \* datagrams waiting in the payload_queue of a direct send_request call
MaxPending == 1     \* datagrams waiting in the payload_queue of a guarded operation
MaxDatagrams == 3   \* non-empty datagrams delivered to one exchange
MaxReplies == 3     \* datagrams delivered to the listener of one discovery
MaxAttempts == 2    \* largest value of the argument attempts of search_printers
MaxBurst == 12      \* datagrams a peer sends in one burst

Tasks == {"t1", "t2", "t3"}
RawTask == "t1"

None == <<>>
Some(v) == <<v>>

(***************************************************************************)
(* Frame codec                                                             *)
(***************************************************************************)
Zeros(n) == [i \in 1..n |-> 0]

\* the largest value of the format "H"
MaxTotalLength == 65535

\* the longest data whose frame length fits the header
MaxData == MaxTotalLength - 8

\* the longest datagram sendto accepts on a UDP socket of AF_INET
MaxUdpPayload == 65507

\* (variant: the length is reduced modulo 2^16 instead of checked)
PackFailsWraps(major, minor, command, length) ==
    \/ major \notin 0..255
    \/ minor \notin 0..255
    \/ command \notin 0..MaxTotalLength

\* struct.pack("BBHHH", ...) raises struct.error when an argument is outside
\* the range of its format: "B" 0..255, "H" 0..65535
PackFails(major, minor, command, length) ==
    \/ major \notin 0..255
    \/ minor \notin 0..255
    \/ command \notin 0..MaxTotalLength
    \/ length \notin 0..MaxTotalLength

\* (variant: the command code most significant byte first)
PackHeaderBigEndian(major, minor, command, length) ==
    << major, minor, command \div 256, command % 256, 0, 0,
       length % 256, length \div 256 >>

\* struct.pack("BBHHH", major, minor, command, 0, length)
PackHeader(major, minor, command, length) ==
    << major, minor, command % 256, command \div 256, 0, 0,
       length % 256, length \div 256 >>

\* header + data
EncodeFrame(major, minor, command, data) ==
    PackHeader(major, minor, command, Len(data) + 8) \o data

\* struct.unpack_from("BBHHH", payload, 0)
_unpack_payload_header(p) ==
    [ protocol_major    |-> p[1],
      protocol_minor    |-> p[2],
      command_code      |-> p[3] + 256 * p[4],
      unknown_parameter |-> p[5] + 256 * p[6],
      payload_size      |-> p[7] + 256 * p[8] ]

ParsedPayload(h, p) ==
    [ protocol_major |-> h.protocol_major,
      protocol_minor |-> h.protocol_minor,
      command_code   |-> h.command_code,
      data           |-> SubSeq(p, 9, Len(p)) ]

(***************************************************************************)
(* Reading fixed-width fields (struct.unpack_from, little-endian); off is  *)
(* the 0-based offset of the field.  A read past the end of the buffer     *)
(* raises struct.error: callers check Fits first.                          *)
(***************************************************************************)
Fits(b, off, width) == off >= 0 /\ off + width <= Len(b)

U8(b, off) == b[off + 1]

\* format "b"
I8(b, off) == IF b[off + 1] >= 128 THEN b[off + 1] - 256 ELSE b[off + 1]

\* format "H"
U16(b, off) == b[off + 1] + 256 * b[off + 2]

\* format "h"
I16(b, off) == IF U16(b, off) >= 32768 THEN U16(b, off) - 65536 ELSE U16(b, off)

\* format "I" (values below 2^31 in this model)
U32(b, off) ==
    b[off + 1] + 256 * b[off + 2] + 65536 * b[off + 3] + 16777216 * b[off + 4]

\* format "i"
I32(b, off) ==
    b[off + 1] + 256 * b[off + 2] + 65536 * b[off + 3]
        + 16777216 * (IF b[off + 4] >= 128 THEN b[off + 4] - 256 ELSE b[off + 4])

\* format "f": the float is kept as its 32-bit pattern
F32(b, off) == [bits |-> U32(b, off)]

\* format "<n>s"; Python slice data[off : off + n] (clipped at the end)
Slice(b, off, n) ==
    SubSeq(b, off + 1, IF off + n <= Len(b) THEN off + n ELSE Len(b))

(***************************************************************************)
(* Text: decode_standard_string.  A string is a sequence of code points.   *)
(***************************************************************************)
Cp1251High ==
    << 1026, 1027, 8218, 1107, 8222, 8230, 8224, 8225, 8364, 8240, 1033, 8249,
       1034, 1036, 1035, 1039, 1106, 8216, 8217, 8220, 8221, 8226, 8211, 8212,
       -1, 8482, 1113, 8250, 1114, 1116, 1115, 1119, 160, 1038, 1118, 1032,
       164, 1168, 166, 167, 1025, 169, 1028, 171, 172, 173, 174, 1031, 176,
       177, 1030, 1110, 1169, 181, 182, 183, 1105, 8470, 1108, 187, 1112, 1029,
       1109, 1111 >>

\* one byte under code page 1251; -1: no such character
Cp1251Char(x) ==
    IF x < 128 THEN x
    ELSE IF x < 192 THEN Cp1251High[x - 127]
    ELSE x + 848

IsCont(x) == x >= 128 /\ x <= 191

\* number of bytes of the UTF-8 sequence starting at b[i]; 0: invalid
Utf8Width(b, i) ==
    LET x == b[i]
        y == IF i + 1 <= Len(b) THEN b[i + 1] ELSE 0
        c2 == i + 2 <= Len(b) /\ IsCont(b[i + 2])
        c3 == i + 3 <= Len(b) /\ IsCont(b[i + 3])
    IN  IF x < 128 THEN 1
        ELSE IF x >= 194 /\ x <= 223 THEN (IF IsCont(y) THEN 2 ELSE 0)
        ELSE IF x = 224 THEN (IF y >= 160 /\ y <= 191 /\ c2 THEN 3 ELSE 0)
        ELSE IF x = 237 THEN (IF y >= 128 /\ y <= 159 /\ c2 THEN 3 ELSE 0)
        ELSE IF x >= 225 /\ x <= 239 THEN (IF IsCont(y) /\ c2 THEN 3 ELSE 0)
        ELSE IF x = 240 THEN (IF y >= 144 /\ y <= 191 /\ c2 /\ c3 THEN 4 ELSE 0)
        ELSE IF x = 244 THEN (IF y >= 128 /\ y <= 143 /\ c2 /\ c3 THEN 4 ELSE 0)
        ELSE IF x >= 241 /\ x <= 243 THEN (IF IsCont(y) /\ c2 /\ c3 THEN 4 ELSE 0)
        ELSE 0

Utf8Char(b, i, w) ==
    CASE w = 1 -> b[i]
      [] w = 2 -> (b[i] - 192) * 64 + (b[i + 1] - 128)
      [] w = 3 -> (b[i] - 224) * 4096 + (b[i + 1] - 128) * 64 + (b[i + 2] - 128)
      [] w = 4 -> (b[i] - 240) * 262144 + (b[i + 1] - 128) * 4096
                      + (b[i + 2] - 128) * 64 + (b[i + 3] - 128)

\* b is well-formed UTF-8: every lead byte starts a complete sequence and
\* every continuation byte belongs to the sequence of the lead byte before it
Utf8Valid(b) ==
    \A i \in 1..Len(b) :
        IF IsCont(b[i])
        THEN \E k \in 1..3 :
                /\ i - k >= 1
                /\ ~IsCont(b[i - k])
                /\ \A t \in 1..(k - 1) : IsCont(b[i - t])
                /\ k < Utf8Width(b, i - k)
        ELSE Utf8Width(b, i) # 0

\* the code points of b, one per lead byte; <<-1>> where decoding fails
Utf8Decode(b) ==
    IF ~Utf8Valid(b) THEN <<0 - 1>>
    ELSE LET leads == SelectSeq([i \in 1..Len(b) |-> i], LAMBDA i : ~IsCont(b[i]))
         IN  [k \in 1..Len(leads) |->
                 Utf8Char(b, leads[k], Utf8Width(b, leads[k]))]

\* bytes.decode("utf-8" if supports_utf8 else "cp1251")
BytesDecode(supports_utf8, b) ==
    IF supports_utf8 THEN Utf8Decode(b)
    ELSE [i \in 1..Len(b) |-> Cp1251Char(b[i])]

DecodeFails(chars) == \E i \in 1..Len(chars) : chars[i] = -1

StripChars == {0, 10, 9, 13, 32}

\* str.rstrip("\x00\n\t\r ")
RStrip(chars) ==
    LET kept == {i \in 1..Len(chars) : chars[i] \notin StripChars}
        last == IF kept = {} THEN 0
                ELSE CHOOSE i \in kept : \A j \in kept : j <= i
    IN  SubSeq(chars, 1, last)

\* decode_standard_string(supports_utf8, value) for a bytes value; defined
\* when BytesDecode does not fail (else UnicodeDecodeError is raised)
decode_standard_string(supports_utf8, value) ==
    RStrip(BytesDecode(supports_utf8, value))

\* one character in cp1251: -1 where the code page has none
Cp1251Byte(ch) ==
    IF ch < 128 THEN ch
    ELSE IF ch >= 1040 /\ ch <= 1103 THEN ch - 848
    ELSE IF \E k \in 1..64 : Cp1251High[k] = ch
         THEN 127 + (CHOOSE k \in 1..64 : Cp1251High[k] = ch)
         ELSE 0 - 1

\* one character in UTF-8: <<-1>> for a surrogate
Utf8Bytes(ch) ==
    IF ch < 128 THEN <<ch>>
    ELSE IF ch < 2048 THEN <<192 + (ch \div 64), 128 + (ch % 64)>>
    ELSE IF ch >= 55296 /\ ch <= 57343 THEN <<0 - 1>>
    ELSE IF ch < 65536
         THEN <<224 + (ch \div 4096), 128 + ((ch \div 64) % 64), 128 + (ch % 64)>>
         ELSE <<240 + (ch \div 262144), 128 + ((ch \div 4096) % 64),
                128 + ((ch \div 64) % 64), 128 + (ch % 64)>>

RECURSIVE Utf8Encode(_)
Utf8Encode(chars) ==
    IF chars = <<>> THEN <<>>
    ELSE Utf8Bytes(Head(chars)) \o Utf8Encode(Tail(chars))

\* str.encode("utf-8" if supports_utf8 else "cp1251"); a byte -1 stands for
\* a character the codec cannot encode (UnicodeEncodeError)
StrEncode(supports_utf8, chars) ==
    IF supports_utf8 THEN Utf8Encode(chars)
    ELSE [i \in 1..Len(chars) |-> Cp1251Byte(chars[i])]

EncodeFails(bytes) == \E i \in 1..Len(bytes) : bytes[i] = 0 - 1

\* encode_standard_string(supports_utf8, value) for a str value; defined
\* when StrEncode does not fail
encode_standard_string(supports_utf8, value) ==
    StrEncode(supports_utf8, RStrip(value))

(***************************************************************************)
(* Requests                                                                *)
(***************************************************************************)
Request(major, minor, command, data, n, eMajor, eMinor, eCommand, eSize) ==
    [ protocol_major        |-> major,
      protocol_minor        |-> minor,
      command_code          |-> command,
      data                  |-> data,
      num_responses         |-> n,
      expect_protocol_major |-> eMajor,
      expect_protocol_minor |-> eMinor,
      expect_command_code   |-> eCommand,
      expect_payload_size   |-> eSize ]

send_request_v1(command, data, n, eMajor, eMinor, eCommand, eSize) ==
    Request(1, 0, command, data, n, eMajor, eMinor, eCommand, eSize)

send_request_v1_atomic(command, data, eMinor, eSize) ==
    Request(1, 0, command, data, Some(1), Some(1), eMinor, Some(command), eSize)

NoRequest == Request(0, 0, 0, <<>>, None, None, None, None, None)

(***************************************************************************)
(* The guarded operations of Picaso3DPrinter and the request each sends.   *)
(***************************************************************************)
GuardedOps ==
    { "update_printer_info", "start_locating", "stop_locating", "change_name",
      "clean_filesystem", "get_free_space", "pause", "resume", "stop",
      "get_printer_state" }

\* struct.pack("20s", new_name)
Pack20s(bytes) == [i \in 1..20 |-> IF i <= Len(bytes) THEN bytes[i] ELSE 0]

\* the new_name argument of change_name: "P\u042f "
NewName == <<80, 1071, 32>>

\* the new_name argument change_name is called with: reset_name passes the
\* serial number of the device
NameArg(o, d) ==
    IF o = "reset_name" /\ d.serial # None THEN d.serial[1] ELSE NewName

\* the send_request call of operation o (change_name: see OpStart)
OpRequest(o) ==
    CASE o = "update_printer_info" ->
            send_request_v1(12, <<>>, Some(1), None, None, Some(12), None)
      [] o = "start_locating"   -> send_request_v1_atomic(14, <<>>, None, None)
      [] o = "stop_locating"    -> send_request_v1_atomic(15, <<>>, None, None)
      [] o = "clean_filesystem" -> send_request_v1_atomic(36, <<>>, None, Some(12))
      [] o = "get_free_space"   -> send_request_v1_atomic(19, <<>>, None, Some(16))
      [] o = "pause"            -> send_request_v1_atomic(9, <<>>, None, None)
      [] o = "resume"           -> send_request_v1_atomic(11, <<>>, None, None)
      [] o = "stop"             -> send_request_v1_atomic(10, <<>>, None, None)
      [] o = "get_printer_state" ->
            send_request_v1(1, <<>>, Some(1), None, Some(1), Some(1), None)

\* (variant: get_printer_state left without the decorator)
GuardedButPoll(o) == o \in GuardedOps \ {"get_printer_state"}

\* The decorator @sequential_request_guard is applied to the operation.
Guarded(o) == o \in GuardedOps

\* Operation o makes its exchange inside "async with self.request_lock": it
\* is decorated, or it is reset_name, which is not decorated and whose body
\* awaits the decorated change_name.
Locks(o) == Guarded(o) \/ (o = "reset_name" /\ Guarded("change_name"))

(***************************************************************************)
(* asyncio.Lock (request_lock)                                             *)
(***************************************************************************)
\* (variant: a release wakes nobody)
WakeUpFirstNobody(w, f) == f

\* Lock._wake_up_first on deque w with future states f
WakeUpFirst(w, f) ==
    IF w # <<>> /\ f[Head(w)] = "pending"
    THEN [f EXCEPT ![Head(w)] = "done"]
    ELSE f

\* deque.remove(fut)
RemoveWaiter(w, c) == SelectSeq(w, LAMBDA x : x # c)

\* (variant: the fast path looks at the lock only, not at the waiters)
CanAcquireNowUnlocked == ~locked

\* the fast path of Lock.acquire
CanAcquireNow ==
    /\ ~locked
    /\ \A i \in 1..Len(waiters) : fut[waiters[i]] = "cancelled"

\* (variant: acquire() and release() around the call, without try/finally)
ReleaseOnReturn(exc) == exc = "return"

\* "async with self.request_lock" releases the lock when the block is left with exc
ReleaseOn(exc) == TRUE

\* (variant: close() calls after the loop, without try/finally)
CloseOnReturn(exc) == exc = "return"

\* the finally blocks of send_request close the endpoint and the socket
CloseOn(exc) == TRUE

(***************************************************************************)
(* The device object: the attributes Picaso3DPrinter.__init__ sets, and    *)
(* the values cached_property has stored for type and supports_utf8        *)
(* (None until first read, never recomputed afterwards).                   *)
(***************************************************************************)
NewPrinter ==
    [ protocol_major |-> 0, protocol_minor |-> 0,
      hw_version_minor |-> 0 - 1, hw_version_major |-> 0 - 1,
      fw_version_major |-> 0, fw_version_minor |-> 0, fw_version_revision |-> 0,
      name |-> None, serial |-> None, mac |-> None,
      first_nozzle_name |-> None, first_nozzle_type |-> 0 - 1,
      second_nozzle_name |-> None, second_nozzle_type |-> 0 - 1,
      first_profile_name |-> None, second_profile_name |-> None,
      cached_type |-> None, cached_supports_utf8 |-> None,
      cached_supports_clean_filesystem |-> None,
      cached_supports_preheat_journal |-> None,
      cached_supports_profiles |-> None ]

PrinterTypeValues == {0 - 1} \cup 4..15

\* PrinterType(hw_version_major), PrinterType.UNKNOWN on ValueError
PrinterTypeOf(hw_version_major) ==
    IF hw_version_major \in PrinterTypeValues THEN hw_version_major ELSE 0 - 1

\* the body of the property supports_utf8
SupportsUtf8(d) ==
    \/ d.protocol_major > 1
    \/ /\ d.protocol_major = 1
       /\ \/ d.protocol_minor > 2
          \/ /\ d.protocol_minor = 2
             /\ \/ d.fw_version_major > 5
                \/ d.fw_version_major = 5 /\ d.fw_version_minor >= 9

\* reading self.type / self.supports_utf8: the device after the read (the
\* value is computed and stored on the first read) and the value read
ReadType(d) ==
    IF d.cached_type = None
    THEN [d EXCEPT !.cached_type = Some(PrinterTypeOf(d.hw_version_major))]
    ELSE d

ReadSupportsUtf8(d) ==
    IF d.cached_supports_utf8 = None
    THEN [d EXCEPT !.cached_supports_utf8 = Some(SupportsUtf8(d))]
    ELSE d

TypeOf(d) == ReadType(d).cached_type[1]
Utf8Of(d) == ReadSupportsUtf8(d).cached_supports_utf8[1]

\* the bodies of the properties supports_clean_filesystem,
\* supports_preheat_journal and supports_profiles
SupportsCleanFilesystem(d) ==
    /\ d.protocol_major = 1
    /\ d.protocol_minor = 2
    /\ \/ d.fw_version_major > 5
       \/ /\ d.fw_version_major = 5
          /\ \/ d.fw_version_minor > 9
             \/ d.fw_version_minor = 9 /\ d.fw_version_revision >= 58

\* (variant: the revision threshold is exclusive)
SupportsPreheatJournalAbove(d) ==
    /\ d.protocol_major = 1
    /\ d.protocol_minor = 2
    /\ \/ d.fw_version_major > 6
       \/ /\ d.fw_version_major = 6
          /\ \/ d.fw_version_minor > 1
             \/ d.fw_version_minor = 1 /\ d.fw_version_revision > 33

SupportsPreheatJournal(d) ==
    /\ d.protocol_major = 1
    /\ d.protocol_minor = 2
    /\ \/ d.fw_version_major > 6
       \/ /\ d.fw_version_major = 6
          /\ \/ d.fw_version_minor > 1
             \/ d.fw_version_minor = 1 /\ d.fw_version_revision >= 33

\* (variant: the firmware minor threshold is exclusive)
SupportsProfilesAbove(d) ==
    /\ d.protocol_major = 1
    /\ \/ /\ d.protocol_minor <= 1
          /\ \/ d.fw_version_major > 5
             \/ d.fw_version_major = 5 /\ d.fw_version_minor > 220
       \/ d.protocol_minor = 2

SupportsProfiles(d) ==
    /\ d.protocol_major = 1
    /\ \/ /\ d.protocol_minor <= 1
          /\ \/ d.fw_version_major > 5
             \/ d.fw_version_major = 5 /\ d.fw_version_minor >= 220
       \/ d.protocol_minor = 2

\* the four capability properties, the attribute functools.cached_property
\* stores the value of each under, and the body of each
Capabilities ==
    { "supports_utf8", "supports_clean_filesystem",
      "supports_preheat_journal", "supports_profiles" }

CacheOf(k) ==
    CASE k = "supports_utf8" -> "cached_supports_utf8"
      [] k = "supports_clean_filesystem" -> "cached_supports_clean_filesystem"
      [] k = "supports_preheat_journal" -> "cached_supports_preheat_journal"
      [] k = "supports_profiles" -> "cached_supports_profiles"

CapabilityBody(k, d) ==
    CASE k = "supports_utf8" -> SupportsUtf8(d)
      [] k = "supports_clean_filesystem" -> SupportsCleanFilesystem(d)
      [] k = "supports_preheat_journal" -> SupportsPreheatJournal(d)
      [] k = "supports_profiles" -> SupportsProfiles(d)

\* reading capability k of the device: the device after the read (the body
\* runs on the first read only, its value is stored in the instance)
ReadCapability(k, d) ==
    IF d[CacheOf(k)] = None
    THEN [d EXCEPT ![CacheOf(k)] = Some(CapabilityBody(k, d))]
    ELSE d

CapabilityOf(k, d) == ReadCapability(k, d)[CacheOf(k)][1]

(***************************************************************************)
(* Identity decoder: _apply_printer_info                                   *)
(***************************************************************************)
HexDigit(x) == IF x < 10 THEN 48 + x ELSE 87 + x

\* the mac setter: value.hex() joined by ":" in groups of two digits
MacText(b) ==
    [i \in 1..(IF Len(b) = 0 THEN 0 ELSE 3 * Len(b) - 1) |->
        CASE i % 3 = 1 -> HexDigit(b[(i + 2) \div 3] \div 16)
          [] i % 3 = 2 -> HexDigit(b[(i + 2) \div 3] % 16)
          [] OTHER -> 58]

Field(attr, kind, width) == [attr |-> attr, kind |-> kind, width |-> width]

\* (variant: on protocol minor 2 the firmware minor is read before the
\* revision)
IdentityFieldsMinorFirst(protocol_minor) ==
    << Field("hw_version_minor", "b", 1), Field("hw_version_major", "b", 1) >>
    \o (CASE protocol_minor = 0 -> << Field("fw_version_minor", "b", 1) >>
          [] protocol_minor = 1 -> << Field("fw_version_minor", "h", 2) >>
          [] protocol_minor = 2 -> << Field("fw_version_minor", "b", 1),
                                      Field("fw_version_revision", "b", 1) >>
          [] OTHER -> << >>)
    \o << Field("fw_version_major", "b", 1),
          Field("name", "text", 20), Field("serial", "text", 50),
          Field("mac", "mac", 6),
          Field("first_nozzle_name", "text", 10),
          Field("first_nozzle_type", "nozzle", 1),
          Field("first_profile_name", "text", 40),
          Field("second_nozzle_name", "text", 10),
          Field("second_nozzle_type", "nozzle", 1),
          Field("second_profile_name", "text", 40) >>

\* the _unpack_incremental calls in the order the code makes them
IdentityFields(protocol_minor) ==
    << Field("hw_version_minor", "b", 1), Field("hw_version_major", "b", 1) >>
    \o (CASE protocol_minor = 0 -> << Field("fw_version_minor", "b", 1) >>
          [] protocol_minor = 1 -> << Field("fw_version_minor", "h", 2) >>
          [] protocol_minor = 2 -> << Field("fw_version_revision", "b", 1),
                                      Field("fw_version_minor", "b", 1) >>
          [] OTHER -> << >>)
    \o << Field("fw_version_major", "b", 1),
          Field("name", "text", 20), Field("serial", "text", 50),
          Field("mac", "mac", 6),
          Field("first_nozzle_name", "text", 10),
          Field("first_nozzle_type", "nozzle", 1),
          Field("first_profile_name", "text", 40),
          Field("second_nozzle_name", "text", 10),
          Field("second_nozzle_type", "nozzle", 1),
          Field("second_profile_name", "text", 40) >>

\* the value a field's setter stores; "try: NozzleType(x) except ValueError:
\* pass" leaves the integer as it is
FieldValue(d, f, data, pointer) ==
    CASE f.kind = "b" -> I8(data, pointer)
      [] f.kind = "h" -> I16(data, pointer)
      [] f.kind = "nozzle" -> I8(data, pointer)
      [] f.kind = "mac" -> Some(MacText(Slice(data, pointer, f.width)))
      [] f.kind = "text" ->
            Some(decode_standard_string(Utf8Of(d), Slice(data, pointer, f.width)))

NozzleTypeValues == {0 - 1, 20, 30, 40, 50, 60, 80, 100}

\* (variant: a code outside the enumeration is an error)
NozzleRejectedUnknown(code) == code \notin NozzleTypeValues

\* "try: NozzleType(nozzle_type) except ValueError: pass": the conversion
\* of a nozzle code never leaves the decoder with an error
NozzleRejected(code) == FALSE

RECURSIVE ApplyFields(_, _, _, _, _)
\* fields k.. of the list are unpacked and assigned in turn, the cursor
\* moving forward; the first failure ends the decode, the assignments made
\* before it stay
ApplyFields(d, fields, k, data, pointer) ==
    IF k > Len(fields) THEN [exc |-> "return", dev |-> d]
    ELSE LET f == fields[k]
             d1 == IF f.kind = "text" THEN ReadSupportsUtf8(d) ELSE d
         IN  IF ~Fits(data, pointer, f.width)
             THEN [exc |-> "struct.error", dev |-> d]
             ELSE IF f.kind = "text"
                     /\ DecodeFails(BytesDecode(Utf8Of(d), Slice(data, pointer, f.width)))
             THEN [exc |-> "UnicodeDecodeError", dev |-> d1]
             ELSE IF f.kind = "nozzle" /\ NozzleRejected(I8(data, pointer))
             THEN [exc |-> "ValueError", dev |-> d]
             ELSE ApplyFields([d1 EXCEPT ![f.attr] = FieldValue(d, f, data, pointer)],
                              fields, k + 1, data, pointer + f.width)

\* (variant: a failed decode leaves the device as it was)
_apply_printer_info_atomic(d, protocol_major, protocol_minor, data) ==
    LET r == ApplyFields([d EXCEPT !.protocol_major = protocol_major,
                                   !.protocol_minor = protocol_minor],
                         IdentityFields(protocol_minor), 1, data, 0)
    IN  IF r.exc = "return" THEN r ELSE [exc |-> r.exc, dev |-> d]

_apply_printer_info(d, protocol_major, protocol_minor, data) ==
    ApplyFields([d EXCEPT !.protocol_major = protocol_major,
                          !.protocol_minor = protocol_minor],
                IdentityFields(protocol_minor), 1, data, 0)

(***************************************************************************)
(* State decoder: the body of get_printer_state after the exchange.        *)
(***************************************************************************)
\* members of the enumerations (an IntEnum member equals its integer)
NetPrinterStateValues == 0..8
\* CONNECTION_ERROR (0x80000000) and INITIAL_STATE (0x80000004) lie above
\* every value format "i" can produce
NetPrinterStatusValues == 0..10
EventSeverityValues == (0 - 1)..4
EventSourceValues == 0..11

\* PrinterType(hw_version_major).is_series_2
IsSeries2(hw_version_major) == hw_version_major \in {12, 13, 14, 15}

EventData(code, severity, source, timestamp) ==
    [code |-> code, severity |-> severity, source |-> source, timestamp |-> timestamp]

\* _parse_event for protocol major 0 and 1
ParseEventV01(content) ==
    LET event_id == I32(content, 0)
    IN  IF event_id <= 0 THEN None
        ELSE Some(EventData(event_id, 0, 0, 0))

\* (variant: the source taken from five bits)
ParseEventV2Source5Bits(content) ==
    LET event_id == U16(content, 0)
    IN  IF event_id = 0 THEN None
        ELSE Some(EventData((event_id \div 8) % 128, event_id % 8,
                            (event_id \div 1024) % 32, U32(content, 2)))

\* (variant: the code taken before the shift)
ParseEventV2CodeUnshifted(content) ==
    LET event_id == U16(content, 0)
    IN  IF event_id = 0 THEN None
        ELSE Some(EventData(event_id % 128, event_id % 8,
                            (event_id \div 1024) % 64, U32(content, 2)))

\* _parse_event for protocol major 2; "try: EventSeverity(x) except
\* ValueError: pass" leaves x as it is in both cases
ParseEventV2(content) ==
    LET event_id == U16(content, 0)
        severity == event_id % 8
        source == (event_id \div 1024) % 64
        timestamp == U32(content, 2)
    IN  IF event_id = 0 THEN None
        ELSE Some(EventData((event_id \div 8) % 128, severity, source, timestamp))

ParseEvent(major, content) ==
    IF major = 2 THEN ParseEventV2(content) ELSE ParseEventV01(content)

\* the loop over the event slots: the list the local variable "events" holds
EventList(major, data, event_start, event_count, event_length) ==
    LET slots == [k \in 1..event_count |->
                     ParseEvent(major, Slice(data, event_start + (k - 1) * event_length,
                                             event_length))]
        found == SelectSeq(slots, LAMBDA e : e # None)
    IN  [j \in 1..Len(found) |-> found[j][1]]

\* (variant: the major-1 length taken for that of major 0)
ExpectedStateSizeSame(major) ==
    CASE major = 0 -> 344
      [] major = 1 -> 344
      [] major = 2 -> 387

ExpectedStateSize(major) ==
    CASE major = 0 -> 343
      [] major = 1 -> 344
      [] major = 2 -> 387

FirstOffset(major) ==
    CASE major = 0 -> 0
      [] major = 1 -> 1
      [] major = 2 -> 4

Raise(exc) == [exc |-> exc]

\* state.ready: the default False, "bool(response.data[16])" for major 1,
\* "bool(value & 1)" for major 2
ReadyFlag(major, data) ==
    CASE major = 0 -> FALSE
      [] major = 1 -> U8(data, 16) # 0
      [] major = 2 -> U32(data, 8) % 2 = 1

\* (variant: preheat_state taken from bit 0 as well)
PreheatFlagBit0(major, data) == major = 2 /\ U32(data, 8) % 2 = 1

\* state.preheat_state: the default False, "bool(value & 2)" for major 2
PreheatFlag(major, data) == major = 2 /\ (U32(data, 8) \div 2) % 2 = 1

\* The bytes of response.data that get_printer_state reads for each field
\* of a response of protocol major major (upgrade: the series-2 override
\* applies and no event slot is read): the field (the event slots are
\* "event" 1, 2, ...), the index of its first byte and its width.
StateFieldRanges(major, upgrade) ==
    LET first_offset == FirstOffset(major)
        off(offset) == offset + first_offset - 8
        event_count == IF upgrade THEN 0 ELSE IF major = 2 THEN 10 ELSE 5
        event_length == IF major = 2 THEN 6 ELSE 4
        slot(field, k, first, width) ==
            [field |-> field, slot |-> k, first |-> first, width |-> width]
        range(field, first, width) == slot(field, 0, first, width)
    IN  { range("state", 0, 4), range("status", 4, 4),
          range("task_name", off(16), 255),
          range("task_progress", off(275), 4),
          range("task_remaining", off(287), 4),
          range("first_nozzle_temperature", off(295), 4),
          range("second_nozzle_temperature", off(299), 4),
          range("chamber_temperature", off(303), 4),
          range("bed_temperature", off(307), 4),
          range("pause_reason", off(335), 4),
          range("stop_reason", off(339), 4) }
        \cup (CASE major = 1 -> { range("ready", 16, 1) }
                [] major = 2 -> { range("flags", 8, 4) }
                [] OTHER -> {})
        \cup { slot("event", k, 315 + first_offset - 8 + (k - 1) * event_length,
                    event_length) : k \in 1..event_count }

\* get_printer_state from "def _check_payload_size" to "return state", for
\* the response of the exchange, on a device whose cached type says
\* is_series_2 and whose cached supports_utf8 is as given
DecodePrinterState(response, is_series_2, supports_utf8) ==
    LET data == response.data
        major == response.protocol_major
    IN
    IF major \notin {0, 1, 2} THEN Raise("ValueError")
    ELSE IF Len(data) + 8 # ExpectedStateSize(major) THEN Raise("ValueError")
    ELSE
    LET first_offset == FirstOffset(major)
        ready == ReadyFlag(major, data)
        preheat_state == PreheatFlag(major, data)
        upgrade == major \in {1, 2} /\ is_series_2
        event_count == IF upgrade THEN 0 ELSE IF major = 2 THEN 10 ELSE 5
        event_length == IF major = 2 THEN 6 ELSE 4
        off(offset) == offset + first_offset - 8
        task_name == BytesDecode(supports_utf8, Slice(data, off(16), 255))
        events == EventList(major, data, 315 + first_offset - 8,
                            event_count, event_length)
    IN
    IF I32(data, 0) \notin NetPrinterStateValues THEN Raise("ValueError")
    ELSE IF I32(data, 4) \notin NetPrinterStatusValues THEN Raise("ValueError")
    ELSE IF DecodeFails(task_name) THEN Raise("UnicodeDecodeError")
    ELSE
      [ exc |-> "return",
        state |-> I32(data, 0),
        status |-> I32(data, 4),
        task_name |-> RStrip(task_name),
        task_progress |-> F32(data, off(275)),
        task_remaining |-> U32(data, off(287)),
        first_nozzle_temperature |-> F32(data, off(295)),
        second_nozzle_temperature |-> F32(data, off(299)),
        chamber_temperature |-> F32(data, off(303)),
        bed_temperature |-> F32(data, off(307)),
        \* the list "events" built by the loop is never stored in the
        \* snapshot: state.events keeps its default, the empty list
        events |-> <<>>,
        pause_reason |-> U32(data, off(335)),
        stop_reason |-> U32(data, off(339)),
        ready |-> ready,
        preheat_state |-> preheat_state,
        events_require_upgrade |-> upgrade ]

(***************************************************************************)
(* Sample payloads and the datagrams the network may deliver              *)
(***************************************************************************)
\* v as four little-endian bytes (two's complement)
LE32(v) == << v % 256, (v \div 256) % 256, (v \div 65536) % 256,
              (v \div 16777216) % 256 >>

LE16(v) == << v % 256, (v \div 256) % 256 >>

\* b with bytes written at 0-based offset off
Put(b, off, bytes) ==
    [i \in 1..Len(b) |->
        IF i > off /\ i <= off + Len(bytes) THEN bytes[i - off] ELSE b[i]]

\* an event slot of the layout of major holding identifier id
EventSlot(major, id) ==
    IF major = 2 THEN LE16(id) \o LE32(7) ELSE LE32(id)

\* event identifiers written to the sampled slots, by layout
SampleEventIds(major) ==
    IF major = 2 THEN {0, 1034, 65535} ELSE {0, 5, 0 - 3}

SampleLength(major) ==
    IF major \in {0, 1, 2} THEN ExpectedStateSize(major) - 8 ELSE 335

\* a state payload: zeros, with the sampled fields written at the offsets
\* where get_printer_state reads them
StatePayload(major, short, st, status, flag, id1, id2, pause) ==
    LET fo == IF major \in {0, 1, 2} THEN FirstOffset(major) ELSE 0
        len == IF major = 2 THEN 6 ELSE 4
        b0 == Zeros(SampleLength(major) - short)
        b1 == Put(b0, 0, LE32(st))
        b2 == Put(b1, 4, LE32(status))
        b3 == Put(b2, IF major = 2 THEN 8 ELSE 16, <<flag>>)
        b4 == Put(b3, 307 + fo, EventSlot(major, id1))
        b5 == Put(b4, 307 + fo + len, EventSlot(major, id2))
    IN  Put(b5, 327 + fo, LE32(pause))

\* an identity payload of protocol minor 1: hardware 13.1, firmware 5.9,
\* name "P1", the other strings empty
IdentityPayload ==
    Put(Put(Zeros(183), 0, <<1, 13, 9, 0, 5>>), 5, <<80, 49>>)

\* the command data a well-behaved printer answers command with
ReplyData(command) ==
    CASE command = 1 -> StatePayload(1, 0, 1, 6, 1, 5, 5, 0)
      [] command = 12 -> IdentityPayload
      [] command = 19 -> <<0, 16, 0, 0, 0, 0, 0, 0>>
      [] command = 36 -> Zeros(4)
      [] OTHER -> <<7, 7>>

ReplyFrame(r) == EncodeFrame(1, 1, r.command_code, ReplyData(r.command_code))

\* The datagrams the network may deliver to the socket of a direct
\* send_request call r: nothing, the reply frame whole, in two parts
\* (header, data) or in three parts, and malformed or foreign datagrams.
PeerDatagrams(r) ==
    LET good == ReplyFrame(r) IN
    { <<>>,
      good,
      SubSeq(good, 1, 8),
      SubSeq(good, 1, 4),
      SubSeq(good, 5, 8),
      SubSeq(good, 9, Len(good)),
      good \o <<0>>,
      PackHeader(1, 1, r.command_code, 5),
      EncodeFrame(1, 1, r.command_code + 1, ReplyData(r.command_code)),
      EncodeFrame(3, 0, r.command_code, ReplyData(r.command_code)) }

\* The datagrams delivered to the exchange of a guarded operation: nothing,
\* the reply frame, a frame of another command, and for the two decoding
\* operations a reply their decoder rejects.
DeviceDatagrams(r) ==
    { <<>>, ReplyFrame(r),
      EncodeFrame(1, 1, r.command_code + 1, <<>>) }
    \cup (CASE r.command_code = 1 ->
                 { EncodeFrame(1, 1, 1, StatePayload(1, 0, 9, 6, 1, 5, 5, 0)) }
            [] r.command_code = 12 ->
                 { EncodeFrame(1, 1, 12, SubSeq(IdentityPayload, 1, 30)) }
            [] OTHER -> {})

(***************************************************************************)
(* Initial state: a new device object, every task about to make its call.  *)
(***************************************************************************)
\* every task about to make its call, no exchange made yet
InitTasks ==
    /\ pc = [c \in Tasks |-> "idle"]
    /\ req = [c \in Tasks |-> NoRequest]
    /\ op = [c \in Tasks |-> "none"]
    /\ locked = FALSE
    /\ waiters = <<>>
    /\ fut = [c \in Tasks |-> "none"]
    /\ sock = [c \in Tasks |-> "none"]
    /\ transport = [c \in Tasks |-> "none"]
    /\ queue = [c \in Tasks |-> <<>>]
    /\ payload = [c \in Tasks |-> <<>>]
    /\ parsed = [c \in Tasks |-> None]
    /\ responses = [c \in Tasks |-> <<>>]
    /\ outcome = [c \in Tasks |-> "none"]
    /\ result = [c \in Tasks |-> <<>>]
    /\ sent = [c \in Tasks |-> <<>>]
    /\ delivered = [c \in Tasks |-> 0]
    /\ raised = [c \in Tasks |-> "none"]
    /\ nparse = [c \in Tasks |-> 0]
    /\ declared = [c \in Tasks |-> <<>>]
    /\ consumed = [c \in Tasks |-> <<>>]

InitDevice ==
    /\ dev = NewPrinter
    /\ InitTasks

\* no decoder has been run
InitDecoders ==
    /\ stInput = <<>>
    /\ stResult = Raise("pending")
    /\ evInput = <<>>
    /\ evResult = [done |-> FALSE]

\* _apply_printer_info has not been run on its own
\* send_request is not called with arguments of the codec's choice
NoCodec ==
    /\ cdInput = <<>>
    /\ cdResult = [phase |-> "none"]

NoIdentity ==
    /\ idInput = <<>>
    /\ idResult = [phase |-> "none"]

\* The dict {} before its first insertion: no entry, no table allocated.
EmptyDict == [entries |-> <<>>, usable |-> 0]

\* No call of subscribe_entity or unsubscribe_entity has been made.
NoCall ==
    [call |-> "none", entity |-> "", exc |-> "none", subscribed |-> FALSE,
     unchanged |-> TRUE]

\* _async_update_data is not running and has not run.
IdleCycle ==
    [pc |-> "idle", pos |-> 0, used |-> 0, len |-> 0, key |-> <<>>,
     data |-> <<>>, exceptions |-> <<>>, one_success |-> FALSE,
     exc |-> "none", invoked |-> <<>>, outcomes |-> <<>>, keys0 |-> <<>>,
     kept |-> <<>>, disturbed |-> FALSE]

\* the coordinator just constructed: nothing subscribed, no poll made
NoCoordinator ==
    /\ update_methods = EmptyDict
    /\ interest = {}
    /\ lastCall = NoCall
    /\ cycle = IdleCycle

\* search_printers has not been called
NoSearch ==
    /\ searchPc = "idle"
    /\ searchSock = "none"
    /\ searchTransport = "none"
    /\ target = <<>>
    /\ received = 0
    /\ attempts = 0
    /\ attempt = 0
    /\ searchOutcome = "none"
    /\ searchResult = <<>>

Init ==
    /\ InitDevice
    /\ InitDecoders
    /\ NoSearch
    /\ NoIdentity
    /\ NoCodec
    /\ NoCoordinator

(***************************************************************************)
(* The bodies of the guarded operations around their exchange              *)
(***************************************************************************)
\* What operation o does between taking the lock and calling send_request:
\* the request it builds and the device after it (change_name reads
\* supports_utf8 to encode the new name).
\* (variant: change_name also stores the new name in the device object)
OpStartRenames(o, d) ==
    IF o \in {"change_name", "reset_name"}
    THEN [ dev |-> [ReadSupportsUtf8(d) EXCEPT
                       !.name = Some(RStrip(NameArg(o, d)))],
           exc |-> IF EncodeFails(StrEncode(Utf8Of(d), RStrip(NameArg(o, d))))
                   THEN "UnicodeEncodeError" ELSE "none",
           req |-> send_request_v1_atomic(13,
                       Pack20s(encode_standard_string(Utf8Of(d), NameArg(o, d))),
                       None, None) ]
    ELSE [ dev |-> d, exc |-> "none", req |-> OpRequest(o) ]

OpStart(o, d) ==
    IF o \in {"change_name", "reset_name"}
    THEN [ dev |-> ReadSupportsUtf8(d),
           exc |-> IF EncodeFails(StrEncode(Utf8Of(d), RStrip(NameArg(o, d))))
                   THEN "UnicodeEncodeError" ELSE "none",
           req |-> send_request_v1_atomic(13,
                       Pack20s(encode_standard_string(Utf8Of(d), NameArg(o, d))),
                       None, None) ]
    ELSE [ dev |-> d, exc |-> "none", req |-> OpRequest(o) ]

\* What operation o does with the responses rs send_request returned: the
\* way it ends, the value it returns and the device after it.
OpFinish(o, rs, d) ==
    CASE o = "update_printer_info" ->
            LET r == _apply_printer_info(d, rs[1].protocol_major,
                                         rs[1].protocol_minor, rs[1].data)
            IN  [exc |-> r.exc, value |-> "self", dev |-> r.dev]
      [] o = "get_printer_state" ->
            LET major == rs[1].protocol_major
                sized == /\ major \in {0, 1, 2}
                         /\ Len(rs[1].data) + 8 = ExpectedStateSize(major)
                d1 == IF sized /\ major \in {1, 2} THEN ReadType(d) ELSE d
                named == /\ sized
                         /\ I32(rs[1].data, 0) \in NetPrinterStateValues
                         /\ I32(rs[1].data, 4) \in NetPrinterStatusValues
                d2 == IF named THEN ReadSupportsUtf8(d1) ELSE d1
                r == DecodePrinterState(rs[1], IsSeries2(TypeOf(d)), Utf8Of(d))
            IN  [exc |-> r.exc, value |-> r, dev |-> d2]
      [] o = "get_free_space" ->
            IF Len(rs[1].data) = 8
            THEN [exc |-> "return", value |-> [Q |-> rs[1].data], dev |-> d]
            ELSE [exc |-> "struct.error", value |-> "none", dev |-> d]
      [] OTHER -> [exc |-> "return", value |-> "None", dev |-> d]

(***************************************************************************)
(* send_request                                                            *)
(***************************************************************************)
\* The call leaves send_request with exception exc ("return": normally,
\* with the responses rs) while its endpoint is in state tr: the finally
\* blocks close the endpoint and the socket; a guarded operation then runs
\* the rest of its body and "async with" releases the lock.  The finished
\* coroutine of a guarded operation keeps only how it ended and its value.
Unwind(c, o, exc, rs, tr) ==
    LET guarded == o # "raw"
        fin == IF guarded /\ exc = "return"
               THEN OpFinish(o, rs, dev)
               ELSE [exc |-> exc, value |-> IF exc = "return" THEN rs ELSE <<>>,
                     dev |-> dev]
    IN
    /\ pc' = [pc EXCEPT ![c] = "done"]
    /\ outcome' = [outcome EXCEPT ![c] = fin.exc]
    /\ result' = [result EXCEPT ![c] = IF fin.exc = "return" THEN fin.value ELSE <<>>]
    /\ dev' = fin.dev
    /\ transport' = [transport EXCEPT ![c] =
           IF tr = "open" /\ CloseOn(exc) THEN "closed" ELSE tr]
    /\ sock' = [sock EXCEPT ![c] =
           IF @ = "open" /\ CloseOn(exc) THEN "closed" ELSE @]
    /\ queue' = [queue EXCEPT ![c] = <<>>]
    /\ payload' = [payload EXCEPT ![c] = <<>>]
    /\ parsed' = [parsed EXCEPT ![c] = None]
    /\ responses' = [responses EXCEPT ![c] = <<>>]
    /\ req' = [req EXCEPT ![c] = IF guarded THEN NoRequest ELSE @]
    /\ op' = [op EXCEPT ![c] = IF guarded THEN "none" ELSE @]
    /\ IF Locks(o) /\ ReleaseOn(fin.exc)
       THEN /\ locked' = FALSE
            /\ fut' = WakeUpFirst(waiters, fut)
       ELSE UNCHANGED <<locked, fut>>
    /\ UNCHANGED waiters

\* The exchange goes on: the task is at the next read_payload call, which
\* suspends it when the queue is empty.
Proceed(c, q, p, h, rs, tr) ==
    /\ pc' = [pc EXCEPT ![c] = IF q = <<>> THEN "await" ELSE "read"]
    /\ queue' = [queue EXCEPT ![c] = q]
    /\ payload' = [payload EXCEPT ![c] = p]
    /\ parsed' = [parsed EXCEPT ![c] = h]
    /\ responses' = [responses EXCEPT ![c] = rs]
    /\ transport' = [transport EXCEPT ![c] = tr]
    /\ UNCHANGED <<outcome, result, sock, lockVars, req, op, dev>>

\* (variant: header and data go out as two datagrams)
SentDatagramsSplit(r) ==
    << PackHeader(r.protocol_major, r.protocol_minor, r.command_code,
                  Len(r.data) + 8),
       r.data >>

\* "sock.sendto(payload, self.addr)", the only send of send_request: the
\* datagrams a call with request r hands to the socket
SentDatagrams(r) ==
    << EncodeFrame(r.protocol_major, r.protocol_minor, r.command_code, r.data) >>

\* (variant: the buffer of the read before is kept)
FreshPayloadKeeps(p) == p

\* 'payload = b""': the buffer a call of _read_single_response starts with,
\* whatever buffer p the call before it left
FreshPayload(p) == <<>>

\* "while num_responses > len(responses)": the head of the collection loop,
\* reached with rs collected, q waiting in the queue, p the buffer of the
\* read before and the endpoint in state tr.  Comparing None with an integer raises TypeError.
CollectLoop(c, q, p, rs, tr) ==
    IF req[c].num_responses = None
    THEN Unwind(c, op[c], "TypeError", <<>>, tr)
    ELSE IF req[c].num_responses[1] > Len(rs)
         THEN Proceed(c, q, FreshPayload(p), None, rs, tr)
         ELSE Unwind(c, op[c], "return", rs, tr)

\* Operation o, holding the lock (or send_request called directly with r),
\* runs up to its first suspension: it builds the request, encodes the
\* frame, opens the socket and asks the loop for a datagram endpoint.  (The
\* requests of these tasks have fields and data that struct.pack accepts;
\* EncodeRequest covers the arguments it refuses.)
BeginExchange(c, o, r) ==
    /\ pc' = [pc EXCEPT ![c] = "endpoint"]
    /\ op' = [op EXCEPT ![c] = o]
    /\ req' = [req EXCEPT ![c] = r]
    /\ sock' = [sock EXCEPT ![c] = "open"]
    /\ UNCHANGED <<transport, queue, payload, parsed, responses, outcome, result>>

\* (variant: the protocol_minor comparison left out)
HeaderMismatchNoMinor(h, r) ==
    \/ r.expect_payload_size # None /\ h.payload_size # r.expect_payload_size[1]
    \/ r.expect_command_code # None /\ h.command_code # r.expect_command_code[1]
    \/ r.expect_protocol_major # None /\ h.protocol_major # r.expect_protocol_major[1]

\* A header field differs from a supplied expectation.
HeaderMismatch(h, r) ==
    \/ r.expect_payload_size # None /\ h.payload_size # r.expect_payload_size[1]
    \/ r.expect_command_code # None /\ h.command_code # r.expect_command_code[1]
    \/ r.expect_protocol_major # None /\ h.protocol_major # r.expect_protocol_major[1]
    \/ r.expect_protocol_minor # None /\ h.protocol_minor # r.expect_protocol_minor[1]

\* (variant: "except TimeoutError: pass")
SwallowedAlways(exc, n) == exc = "TimeoutError"

\* "except TimeoutError: if num_responses is not None: raise": the collection
\* loop catches exc and goes on.
Swallowed(exc, n) == exc = "TimeoutError" /\ n = None

\* An exception exc raised inside _read_single_response reaches the
\* collection loop of send_request.
RaiseInRead(c, q, exc) ==
    IF Swallowed(exc, req[c].num_responses)
    THEN CollectLoop(c, q, payload[c], responses[c], transport[c])
    ELSE Unwind(c, op[c], exc, <<>>, transport[c])

\* "if parsed_payload_size is None and len(payload) >= 8"
ShouldParseHeader(h, p) == h = None /\ Len(p) >= 8

\* "while parsed_payload_size is None or len(payload) < parsed_payload_size"
KeepReading(h, p) == h = None \/ Len(p) < h[1].payload_size

\* (variant: the check after the loop compares with ">", which the loop
\* condition has already excluded)
DecodingMismatchNever(h, p) == h[1].payload_size > Len(p)

\* "if parsed_payload_size != len(payload): raise ValueError"
DecodingMismatch(h, p) == h[1].payload_size # Len(p)

DEFAULT_READ_TIMEOUT == 5
QueueCapacity == 10

\* the timeouts _read_single_response runs under: send_request passes
\* neither read_timeout nor total_timeout
read_timeout == Some(DEFAULT_READ_TIMEOUT)
total_timeout == None

\* The per-exchange history of task c after a step: new while the call
\* runs (and after a direct send_request call), gone with the coroutine of
\* a guarded operation that has ended.
History(c, s, dl, ra, np, de) ==
    LET gone == pc'[c] = "done" /\ op'[c] # "raw" IN
    /\ sent' = [sent EXCEPT ![c] = IF gone THEN <<>> ELSE s]
    /\ delivered' = [delivered EXCEPT ![c] = IF gone THEN 0 ELSE dl]
    /\ raised' = [raised EXCEPT ![c] = IF gone THEN "none" ELSE ra]
    /\ nparse' = [nparse EXCEPT ![c] = IF gone THEN 0 ELSE np]
    /\ declared' = [declared EXCEPT ![c] = IF gone THEN <<>> ELSE de]

\* the bytes consumed by the call of task c after a step
Consumed(c, v) ==
    consumed' = [consumed EXCEPT ![c] =
                    IF pc'[c] = "done" /\ op'[c] # "raw" THEN <<>> ELSE v]

SameHistory(c) ==
    /\ History(c, sent[c], delivered[c], raised[c], nparse[c], declared[c])
    /\ Consumed(c, consumed[c])


(***************************************************************************)
(* Actions                                                                 *)
(***************************************************************************)
\* The body of operation o starts in task c; w and f are the deque and
\* the futures of the lock as Lock.acquire left them.  A guarded operation
\* holds the lock from here until its body is left.
StartBody(c, o, w, f) ==
    LET start == OpStart(o, dev) IN
    /\ dev' = start.dev
    /\ waiters' = w
    /\ IF start.exc # "none"
       THEN /\ pc' = [pc EXCEPT ![c] = "done"]
            /\ op' = [op EXCEPT ![c] = "none"]
            /\ outcome' = [outcome EXCEPT ![c] = start.exc]
            /\ locked' = (Locks(o) /\ ~ReleaseOn(start.exc))
            /\ fut' = IF Locks(o) /\ ReleaseOn(start.exc)
                      THEN WakeUpFirst(w, f) ELSE f
            /\ UNCHANGED <<req, sock, transport, queue, payload, parsed,
                           responses, result>>
       ELSE /\ BeginExchange(c, o, start.req)
            /\ locked' = (Locks(o) \/ locked)
            /\ fut' = f
    /\ History(c, <<>>, 0, "none", 0, <<>>)
    /\ Consumed(c, <<>>)

\* Task c calls guarded operation o: the wrapper enters "async with
\* self.request_lock"; Lock.acquire takes the lock at once or queues a
\* future and suspends.
Call(c, o) ==
    /\ pc[c] = "idle"
    /\ o \in GuardedOps \cup {"reset_name"}
    /\ IF Locks(o) /\ ~CanAcquireNow
       THEN /\ pc' = [pc EXCEPT ![c] = "lock_wait"]
            /\ op' = [op EXCEPT ![c] = o]
            /\ waiters' = Append(waiters, c)
            /\ fut' = [fut EXCEPT ![c] = "pending"]
            /\ UNCHANGED <<locked, req, sock, transport, queue, payload, parsed,
                           responses, outcome, result, dev, histVars>>
       ELSE StartBody(c, o, waiters, fut)
    /\ UNCHANGED decVars

\* Task c calls send_request directly with arguments of its choice.
RawCall(c) ==
    /\ pc[c] = "idle"
    /\ \E n \in {None, Some(1), Some(2)}, eMajor \in {None, Some(1)},
          eMinor \in {None, Some(1)}, eCommand \in {None, Some(9)},
          eSize \in {None, Some(10)}, data \in {<<>>, <<1, 2, 3>>} :
            BeginExchange(c, "raw",
                Request(1, 0, 9, data, n, eMajor, eMinor, eCommand, eSize))
    /\ History(c, <<>>, 0, "none", 0, <<>>)
    /\ Consumed(c, <<>>)
    /\ UNCHANGED <<lockVars, dev, decVars>>

\* The waiter's future was resolved by a release: Lock.acquire removes it
\* from the deque, takes the lock and the body starts.
AcquireAfterWait(c) ==
    /\ pc[c] = "lock_wait"
    /\ fut[c] = "done"
    /\ StartBody(c, op[c], RemoveWaiter(waiters, c), [fut EXCEPT ![c] = "none"])
    /\ UNCHANGED decVars

\* The task waiting for the lock is cancelled.
CancelWaiter(c) ==
    /\ pc[c] = "lock_wait"
    /\ fut[c] \in {"pending", "done"}
    /\ fut' = [fut EXCEPT ![c] = IF @ = "pending" THEN "cancelled" ELSE "done_cancel"]
    /\ UNCHANGED <<pc, req, op, locked, waiters, sock, transport, queue, payload,
                   parsed, responses, outcome, result, dev, histVars, decVars>>

\* The cancelled waiter runs: Lock.acquire removes its future, passes the
\* wake-up on if the lock is free and lets CancelledError out.
WaiterCancelled(c) ==
    /\ pc[c] = "lock_wait"
    /\ fut[c] \in {"cancelled", "done_cancel"}
    /\ pc' = [pc EXCEPT ![c] = "done"]
    /\ op' = [op EXCEPT ![c] = "none"]
    /\ outcome' = [outcome EXCEPT ![c] = "CancelledError"]
    /\ waiters' = RemoveWaiter(waiters, c)
    /\ fut' = IF locked THEN [fut EXCEPT ![c] = "none"]
              ELSE WakeUpFirst(RemoveWaiter(waiters, c), [fut EXCEPT ![c] = "none"])
    /\ UNCHANGED <<req, locked, sock, transport, queue, payload, parsed,
                   responses, result, dev, histVars, decVars>>

\* create_datagram_endpoint completes (or fails) and the task runs up to
\* the first read: sendto, then the head of the collection loop.
EndpointReady(c, how) ==
    /\ pc[c] = "endpoint"
    /\ CASE how = "endpoint fails" ->
              /\ Unwind(c, op[c], "OSError", <<>>, "none")
              /\ SameHistory(c)
         [] how = "sendto fails" ->
              /\ Unwind(c, op[c], "OSError", <<>>, "open")
              /\ SameHistory(c)
         [] how = "ok" ->
              /\ CollectLoop(c, <<>>, <<>>, <<>>, "open")
              /\ History(c, sent[c] \o SentDatagrams(req[c]),
                         delivered[c], raised[c], nparse[c], declared[c])
              /\ Consumed(c, consumed[c])
    /\ UNCHANGED decVars

\* (variant: a queue without a capacity)
PutNowaitUnbounded(q, d) == Append(q, d)

\* payload_queue.put_nowait(d) on asyncio.Queue(10): with 10 datagrams
\* waiting it raises QueueFull out of datagram_received, the loop reports
\* the exception and the datagram is gone
PutNowait(q, d) == IF Len(q) >= QueueCapacity THEN q ELSE Append(q, d)

\* datagram_received: the network hands datagram d to the endpoint of the
\* exchange of task c, which queues it; a suspended reader becomes runnable.
Deliver(c, d) ==
    /\ pc[c] \in {"await", "read"}
    /\ transport[c] = "open"
    /\ Len(queue[c]) < (IF op[c] = "raw" THEN MaxQueue ELSE MaxPending)
    /\ d # <<>> => delivered[c] < MaxDatagrams
    /\ queue' = [queue EXCEPT ![c] = PutNowait(@, d)]
    /\ pc' = [pc EXCEPT ![c] = "read"]
    /\ delivered' = [delivered EXCEPT ![c] = IF d = <<>> THEN @ ELSE @ + 1]
    /\ UNCHANGED <<req, op, lockVars, sock, transport, payload, parsed, responses,
                   outcome, result, dev, sent, raised, nparse, declared, consumed,
                   decVars>>

\* One iteration of the loop of _read_single_response: read_payload returns
\* the oldest queued datagram, it is appended to the buffer, the header is
\* parsed if it is due, and the loop condition is evaluated again.
ReadPayload(c) ==
    /\ pc[c] = "read"
    /\ queue[c] # <<>>
    /\ LET q == Tail(queue[c])
           p == payload[c] \o Head(queue[c])
           parse == ShouldParseHeader(parsed[c], p)
           h == IF parse THEN Some(_unpack_payload_header(p)) ELSE parsed[c]
           np == IF parse THEN nparse[c] + 1 ELSE nparse[c]
       IN  IF parse /\ HeaderMismatch(h[1], req[c])
           THEN /\ RaiseInRead(c, q, "ValueError")
                /\ History(c, sent[c], delivered[c], "header mismatch", np, declared[c])
           ELSE IF KeepReading(h, p)
           THEN /\ Proceed(c, q, p, h, responses[c], transport[c])
                /\ History(c, sent[c], delivered[c], raised[c], np, declared[c])
           ELSE IF DecodingMismatch(h, p)
           THEN /\ RaiseInRead(c, q, "ValueError")
                /\ History(c, sent[c], delivered[c], "decoding mismatch", np, declared[c])
           ELSE /\ CollectLoop(c, q, p, Append(responses[c], ParsedPayload(h[1], p)),
                               transport[c])
                /\ History(c, sent[c], delivered[c], raised[c], 0,
                           Append(declared[c], h[1].payload_size))
    /\ Consumed(c, consumed[c] \o Head(queue[c]))
    /\ UNCHANGED decVars

\* a deadline of asyncio.timeout is armed around the suspended read
TimerArmed == read_timeout # None \/ total_timeout # None

\* No datagram arrived in time: the suspended read_payload raises
\* TimeoutError.
Timeout(c) ==
    /\ pc[c] = "await"
    /\ TimerArmed
    /\ RaiseInRead(c, <<>>, "TimeoutError")
    /\ History(c, sent[c], delivered[c], "timeout", nparse[c], declared[c])
    /\ Consumed(c, consumed[c])
    /\ UNCHANGED decVars

\* The task is cancelled while suspended inside send_request.
CancelExchange(c) ==
    /\ pc[c] \in {"endpoint", "await"}
    /\ Unwind(c, op[c], "CancelledError", <<>>, transport[c])
    /\ SameHistory(c)
    /\ UNCHANGED decVars

(***************************************************************************)
(* Specifications                                                          *)
(***************************************************************************)
\* The operations each task may call: t1 any of them (a service call or an
\* entity action), t2 those of the coordinator's refresh, t3 the locate switch.
OpsOf(c) ==
    CASE c = "t1" -> GuardedOps
      [] c = "t2" -> {"get_printer_state", "update_printer_info"}
      [] OTHER -> {"start_locating"}

\* the tasks of an integration calling the guarded operations of one device
Next ==
    \E c \in Tasks :
        \/ \E o \in OpsOf(c) : Call(c, o)
        \/ AcquireAfterWait(c)
        \/ CancelWaiter(c)
        \/ WaiterCancelled(c)
        \/ \E how \in {"ok", "endpoint fails", "sendto fails"} : EndpointReady(c, how)
        \/ \E d \in DeviceDatagrams(req[c]) : Deliver(c, d)
        \/ ReadPayload(c)
        \/ Timeout(c)
        \/ CancelExchange(c)

Spec == Init /\ [][Next]_vars

\* one task calling send_request directly
NextTransport ==
    \/ RawCall(RawTask)
    \/ \E how \in {"ok", "endpoint fails", "sendto fails"} : EndpointReady(RawTask, how)
    \/ \E d \in PeerDatagrams(req[RawTask]) : Deliver(RawTask, d)
    \/ ReadPayload(RawTask)
    \/ Timeout(RawTask)
    \/ CancelExchange(RawTask)

SpecTransport == Init /\ [][NextTransport]_vars

\* The same under the scheduling of the event loop: a runnable task is run
\* and an armed timer fires unless the read completes first.  The network
\* owes the exchange nothing.
FairTransport ==
    /\ WF_vars(\E how \in {"ok", "endpoint fails", "sendto fails"} :
                    EndpointReady(RawTask, how))
    /\ WF_vars(ReadPayload(RawTask))
    /\ WF_vars(Timeout(RawTask))

FairSpecTransport == SpecTransport /\ FairTransport

(***************************************************************************)
(* The state decoder alone: get_printer_state applied to one response.     *)
(***************************************************************************)
\* the responses and device flags the decoder is run on, for the given majors
StateInputs(majors) ==
    UNION { { [ response |-> [ protocol_major |-> major, protocol_minor |-> 1,
                               command_code |-> 1,
                               data |-> StatePayload(major, short, st, status,
                                                     flag, id1, id2, pause) ],
                is_series_2 |-> series2,
                supports_utf8 |-> utf8 ] :
              short \in {0 - 1, 0, 1}, st \in {1, 9}, status \in {6, 11},
              flag \in {0, 1, 2, 3}, id1 \in SampleEventIds(major),
              id2 \in SampleEventIds(major) \ {0}, pause \in {0, 2, 16384},
              series2 \in BOOLEAN, utf8 \in BOOLEAN } :
            major \in majors }

InitState ==
    /\ InitDevice
    /\ stInput \in StateInputs(0..3)
    /\ stResult = Raise("pending")
    /\ evInput = <<>>
    /\ evResult = [done |-> FALSE]
    /\ NoSearch
    /\ NoIdentity
    /\ NoCodec
    /\ NoCoordinator

\* get_printer_state decodes the response it received
DecodeState ==
    /\ stResult = Raise("pending")
    /\ stResult' = DecodePrinterState(stInput.response, stInput.is_series_2,
                                      stInput.supports_utf8)
    /\ UNCHANGED <<stInput, devVars, coVars, evVars, idVars, cdVars, searchVars>>

NextState == DecodeState

SpecState == InitState /\ [][NextState]_vars

(***************************************************************************)
(* The event parser alone: _parse_event applied to one slot.               *)
(***************************************************************************)
\* identifiers written to a 4-byte slot (major 0 and 1)
LegacyEventIds ==
    {0 - 2147483647, 0 - 3, 0 - 1, 0, 1, 5, 255, 256, 1034, 65536, 2147483647}
        \cup 20..40

\* identifiers and timestamps written to a 6-byte slot (major 2)
PackedEventIds ==
    {0, 1, 7, 8, 1016, 1024, 1034, 5130, 33802, 64519, 65535}
        \cup {1031 * k : k \in 1..20}

EventTimestamps == {0, 7, 2147483647}

EventInputs ==
    { [major |-> major, content |-> LE32(id)] :
        major \in {0, 1}, id \in LegacyEventIds }
    \cup { [major |-> 2, content |-> LE16(id) \o LE32(ts)] :
             id \in PackedEventIds, ts \in EventTimestamps }

InitEvent ==
    /\ InitDevice
    /\ stInput = <<>>
    /\ stResult = Raise("pending")
    /\ evInput \in EventInputs
    /\ evResult = [done |-> FALSE]
    /\ NoSearch
    /\ NoIdentity
    /\ NoCodec
    /\ NoCoordinator

\* the loop of get_printer_state parses one slot
ParseSlot ==
    /\ ~evResult.done
    /\ evResult' = [done |-> TRUE,
                    event |-> ParseEvent(evInput.major, evInput.content)]
    /\ UNCHANGED <<evInput, stInput, stResult, devVars, coVars, idVars, cdVars, searchVars>>

NextEvent == ParseSlot

SpecEvent == InitEvent /\ [][NextEvent]_vars

(***************************************************************************)
(* One device object over its life: identity refreshes, state queries and  *)
(* reads of the capability properties, one after the other (the request    *)
(* lock serialises the operations; a property read does not suspend).      *)
(* The exchange of each operation is left out: the operation is given the  *)
(* response send_request returned.                                         *)
(***************************************************************************)
\* a ParsedPayload as send_request returns it
Response(protocol_major, protocol_minor, command_code, data) ==
    [ protocol_major |-> protocol_major, protocol_minor |-> protocol_minor,
      command_code |-> command_code, data |-> data ]

\* the data of an identity reply of protocol minor "minor": hardware
\* hw_major.1, the firmware version given, every string empty
IdentitySample(minor, hw_major, fw_major, fw_minor, fw_revision) ==
    LET version ==
            CASE minor = 0 -> << fw_minor >>
              [] minor = 1 -> LE16(fw_minor)
              [] OTHER -> << fw_revision, fw_minor >>
        head == << 1, hw_major >> \o version \o << fw_major >>
    IN  head \o Zeros(178)

\* the identity replies a refresh may receive: a series-2 printer on
\* protocol 1.1 (firmware 5.9), a series-1 printer on protocol 1.2
\* (firmware 6.1.33), and a reply cut after the hardware version
IdentityResponses ==
    { Response(1, 1, 12, IdentityPayload),
      Response(1, 2, 12, IdentitySample(2, 9, 6, 1, 33)),
      Response(1, 2, 12, << 1, 6 >>) }

\* the state replies a query may receive: protocol major 0 and 1 with two
\* events in the event region
StateResponses ==
    { Response(major, 1, 1, StatePayload(major, 0, 1, 6, 1, 5, 5, 0)) :
        major \in {0, 1} }

InitLife ==
    /\ InitDevice
    /\ InitDecoders
    /\ NoSearch
    /\ NoIdentity
    /\ NoCodec
    /\ NoCoordinator

\* update_printer_info after its exchange
Refresh ==
    \E r \in IdentityResponses :
        /\ dev' = OpFinish("update_printer_info", << r >>, dev).dev
        /\ UNCHANGED <<pc, req, op, lockVars, sock, transport, queue, payload,
                       parsed, responses, outcome, result, histVars, decVars>>

\* get_printer_state after its exchange; the hardware version the device
\* holds at the time of the query is recorded next to the response
QueryState ==
    \E r \in StateResponses :
        LET f == OpFinish("get_printer_state", << r >>, dev) IN
        /\ stInput' = [response |-> r,
                       hw_version_major |-> dev.hw_version_major]
        /\ stResult' = f.value
        /\ dev' = f.dev
        /\ UNCHANGED <<pc, req, op, lockVars, sock, transport, queue, payload,
                       parsed, responses, outcome, result, histVars, evVars,
                       idVars, cdVars, coVars, searchVars>>

\* a read of one of the capability properties; the value read is
\* CapabilityOf(k, dev)
ReadProperty ==
    \E k \in Capabilities :
        /\ dev' = ReadCapability(k, dev)
        /\ UNCHANGED <<pc, req, op, lockVars, sock, transport, queue, payload,
                       parsed, responses, outcome, result, histVars, decVars>>

NextLife == Refresh \/ QueryState \/ ReadProperty

SpecLife == InitLife /\ [][NextLife]_vars

(***************************************************************************)
(* Discovery: search_printers broadcasts probes, a collector stores the    *)
(* last datagram of every replying address, and after the last interval    *)
(* the stored replies are parsed into device objects.                      *)
(***************************************************************************)
DEFAULT_INTERACTION_PORT == 54321

\* cls(addr[0]) after _apply_printer_info gave it the fields d
Printer(host, d) == [host |-> host, port |-> DEFAULT_INTERACTION_PORT, info |-> d]

\* printer.serial of a device whose identity was decoded
SerialOf(p) == p.info.serial[1]

\* datagram_received of the collector: self.target[addr] = payload (a dict
\* keeps the position an address was first inserted at)
Store(tgt, addr, data) ==
    IF \E i \in 1..Len(tgt) : tgt[i].addr = addr
    THEN [i \in 1..Len(tgt) |->
            IF tgt[i].addr = addr THEN [addr |-> addr, data |-> data] ELSE tgt[i]]
    ELSE Append(tgt, [addr |-> addr, data |-> data])

\* "key in holder"; a holder is a dict, modelled as the sequence of its
\* items in insertion order
InHolderNever(key, holder) == FALSE

InHolder(key, holder) == \E i \in 1..Len(holder) : holder[i].key = key

\* "except Exception" around the header unpack and around the identity
\* decode of one reply
SweepCatchesButStruct(exc) == exc \notin {"CancelledError", "struct.error"}

SweepCatches(exc) == exc # "CancelledError"

\* one iteration of the loop up to the choice of the key: the header is
\* unpacked, the command code compared, a new device object given the
\* identity ("skip": the iteration ends at "continue")
ParseReply(addr, data) ==
    IF Len(data) < 8
    THEN [exc |-> "struct.error", printer |-> Printer(addr[1], NewPrinter)]
    ELSE LET h == _unpack_payload_header(data) IN
         IF h.command_code # 12
         THEN [exc |-> "skip", printer |-> Printer(addr[1], NewPrinter)]
         ELSE LET r == _apply_printer_info(NewPrinter, h.protocol_major,
                                           h.protocol_minor,
                                           SubSeq(data, 9, Len(data)))
              IN  [exc |-> IF r.exc = "return" THEN "none" ELSE r.exc,
                   printer |-> Printer(addr[1], r.dev)]

\* [*holder.values()]
Values(holder) == [i \in 1..Len(holder) |-> holder[i].printer]

RECURSIVE Sweep(_, _, _, _)
\* the loop over responses.items() from item k on and the return statement
Sweep(items, k, printers_by_serial, printers_by_addr) ==
    IF k > Len(items)
    THEN [exc |-> "return",
          value |-> Values(printers_by_serial) \o Values(printers_by_addr)]
    ELSE LET addr == items[k].addr
             r == ParseReply(addr, items[k].data)
             next == Sweep(items, k + 1, printers_by_serial, printers_by_addr)
         IN  IF r.exc = "skip" THEN next
             ELSE IF r.exc # "none"
             THEN IF SweepCatches(r.exc) THEN next
                  ELSE [exc |-> r.exc, value |-> <<>>]
             ELSE IF SerialOf(r.printer) # <<>>
             THEN IF InHolder(SerialOf(r.printer), printers_by_serial) THEN next
                  ELSE Sweep(items, k + 1,
                             Append(printers_by_serial,
                                    [key |-> SerialOf(r.printer),
                                     printer |-> r.printer]),
                             printers_by_addr)
             ELSE IF InHolder(addr, printers_by_addr) THEN next
                  ELSE Sweep(items, k + 1, printers_by_serial,
                             Append(printers_by_addr,
                                    [key |-> addr, printer |-> r.printer]))

\* the identity data of a printer on protocol 1.1 whose serial is the
\* given bytes
SearchIdentity(serial) == Put(IdentityPayload, 25, serial)

\* the datagrams a host may answer a probe with: identity replies with the
\* serials "S1", "S2" and an empty serial, a datagram shorter than a
\* header, a frame of another command, and an identity reply cut short
SearchDatagrams ==
    { EncodeFrame(1, 1, 12, SearchIdentity(<<83, 49>>)),
      EncodeFrame(1, 1, 12, SearchIdentity(<<83, 50>>)),
      EncodeFrame(1, 1, 12, IdentityPayload),
      <<1, 1, 12>>,
      EncodeFrame(1, 1, 1, IdentityPayload),
      EncodeFrame(1, 1, 12, SubSeq(IdentityPayload, 1, 30)) }

\* the addresses replies come from: two ports of one host, and another host
SearchAddrs ==
    { <<"192.168.0.2", 49149>>, <<"192.168.0.2", 50000>>,
      <<"192.168.0.3", 49149>> }

InitSearch ==
    /\ InitDevice
    /\ InitDecoders
    /\ NoSearch
    /\ NoIdentity
    /\ NoCodec
    /\ NoCoordinator

\* the code after the try block was left: "finally" has closed the
\* endpoint and the socket; on the normal path the replies are parsed and
\* the list is returned
LeaveSearch(exc) ==
    LET r == IF exc = "return" THEN Sweep(target, 1, <<>>, <<>>)
             ELSE [exc |-> exc, value |-> <<>>]
    IN  /\ searchPc' = "done"
        /\ searchTransport' = "closed"
        /\ searchSock' = "closed"
        /\ searchOutcome' = r.exc
        /\ searchResult' = r.value
        /\ UNCHANGED <<target, received, attempts, attempt>>

\* the call up to create_datagram_endpoint: the socket is created and
\* bound; an OSError raised by bind leaves the function at once
StartSearch(n, how) ==
    /\ searchPc = "idle"
    /\ attempts' = n
    /\ searchSock' = "open"
    /\ IF how = "ok"
       THEN /\ searchPc' = "endpoint"
            /\ UNCHANGED searchOutcome
       ELSE /\ searchPc' = "done"
            /\ searchOutcome' = "OSError"
    /\ UNCHANGED <<searchTransport, target, received, attempt, searchResult>>
    /\ UNCHANGED <<devVars, coVars, stInput, stResult, evVars, idVars, cdVars>>

\* await loop.create_datagram_endpoint(...) ends: with the endpoint, with
\* an error, or by cancellation of the task; the statement is not inside
\* the try block
EndpointCreated(how) ==
    /\ searchPc = "endpoint"
    /\ IF how = "ok"
       THEN /\ searchPc' = "send"
            /\ searchTransport' = "open"
            /\ UNCHANGED searchOutcome
       ELSE /\ searchPc' = "done"
            /\ searchOutcome' = how
            /\ UNCHANGED searchTransport
    /\ UNCHANGED <<searchSock, target, received, attempts, attempt, searchResult>>
    /\ UNCHANGED <<devVars, coVars, stInput, stResult, evVars, idVars, cdVars>>

\* one iteration of the loop up to the sleep: transport.sendto
Probe(how) ==
    /\ searchPc = "send"
    /\ attempt < attempts
    /\ IF how = "ok"
       THEN /\ attempt' = attempt + 1
            /\ searchPc' = "sleep"
            /\ UNCHANGED <<searchSock, searchTransport, target, received,
                           attempts, searchOutcome, searchResult>>
       ELSE LeaveSearch("OSError")
    /\ UNCHANGED <<devVars, coVars, stInput, stResult, evVars, idVars, cdVars>>

\* the loop is over
ReturnPrinters ==
    /\ searchPc = "send"
    /\ attempt = attempts
    /\ LeaveSearch("return")
    /\ UNCHANGED <<devVars, coVars, stInput, stResult, evVars, idVars, cdVars>>

\* a datagram that arrives at the socket is handed to the collector while
\* the endpoint is open; transport.close() removes the socket from the
\* event loop
ListenerDeliversAlways(tr) == TRUE

ListenerDelivers(tr) == tr = "open"

\* a datagram arrives: while the call sleeps the event loop gives it to the
\* collector; after the finally block closed the endpoint it is dropped
Receive(addr, data) ==
    /\ \/ searchPc = "sleep"
       \/ searchPc = "done" /\ searchTransport = "closed"
    /\ received < MaxReplies
    /\ received' = received + 1
    /\ target' = IF ListenerDelivers(searchTransport)
                 THEN Store(target, addr, data) ELSE target
    /\ UNCHANGED <<searchPc, searchSock, searchTransport, attempts, attempt,
                   searchOutcome, searchResult>>
    /\ UNCHANGED <<devVars, coVars, stInput, stResult, evVars, idVars, cdVars>>

\* asyncio.sleep(send_interval) is over
Wake ==
    /\ searchPc = "sleep"
    /\ searchPc' = "send"
    /\ UNCHANGED <<searchSock, searchTransport, target, received, attempts,
                   attempt, searchOutcome, searchResult>>
    /\ UNCHANGED <<devVars, coVars, stInput, stResult, evVars, idVars, cdVars>>

\* the task is cancelled during the sleep
CancelSearch ==
    /\ searchPc = "sleep"
    /\ LeaveSearch("CancelledError")
    /\ UNCHANGED <<devVars, coVars, stInput, stResult, evVars, idVars, cdVars>>

\* a socket the function left open is closed later by the interpreter,
\* when the socket object is finalised
Reclaim ==
    /\ searchPc = "done"
    /\ searchSock = "open"
    /\ searchSock' = "closed"
    /\ UNCHANGED <<searchPc, searchTransport, target, received, attempts,
                   attempt, searchOutcome, searchResult>>
    /\ UNCHANGED <<devVars, coVars, stInput, stResult, evVars, idVars, cdVars>>

NextSearch ==
    \/ \E n \in 0..MaxAttempts, how \in {"ok", "bind fails"} : StartSearch(n, how)
    \/ \E how \in {"ok", "OSError", "CancelledError"} : EndpointCreated(how)
    \/ \E how \in {"ok", "sendto fails"} : Probe(how)
    \/ ReturnPrinters
    \/ \E addr \in SearchAddrs, data \in SearchDatagrams : Receive(addr, data)
    \/ Wake
    \/ CancelSearch
    \/ Reclaim

SpecSearch == InitSearch /\ [][NextSearch]_vars

(***************************************************************************)
(* The identity decoder alone: _apply_printer_info applied to one reply,   *)
(* on a new device object or on one identified before, and the capability  *)
(* properties read after it.                                               *)
(***************************************************************************)
\* n bytes, each telling its position: printable ASCII, no padding character
LayoutData(n) == [i \in 1..n |-> 33 + ((i * 7) % 90)]

\* the number of bytes the decoder reads on protocol minor m
IdentityLength(m) ==
    CASE m = 0 -> 182
      [] m = 1 -> 183
      [] m = 2 -> 184
      [] OTHER -> 181

\* a device identified before: the fields of IdentityPayload
OldPrinter == _apply_printer_info(NewPrinter, 1, 1, IdentityPayload).dev

IdentityInput(before, protocol_major, protocol_minor, data) ==
    [ before |-> before, protocol_major |-> protocol_major,
      protocol_minor |-> protocol_minor, data |-> data ]

\* replies of every length around the field boundaries, whole, cut short
\* or with bytes to spare
LayoutInputs ==
    { IdentityInput(before, 1, m, LayoutData(n)) :
        before \in {NewPrinter, OldPrinter}, m \in 0..3,
        n \in { 0, 1, 2, 3, 4, 5, 10, 24, 25, 60, 75, 80, 81, 85, 91, 92,
                100, 132, 140, 142, 143, 180, 181, 182, 183, 184, 187 } }

\* whole replies of protocol 1.1 with the two nozzle codes t1 and t2, as
\* bytes: members of NozzleType (255 is -1) and codes outside it
NozzleInputs ==
    { IdentityInput(NewPrinter, 1, 1,
                    Put(Put(LayoutData(183), 91, << t1 >>), 142, << t2 >>)) :
        t1 \in {255, 0, 20, 21, 40, 99, 100, 128},
        t2 \in {255, 0, 20, 21, 40, 99, 100, 128} }

\* whole replies of protocol 2.2 (text is UTF-8) with two bytes that are
\* not UTF-8 at the start of one text field
BadTextInputs ==
    { IdentityInput(before, 2, 2, Put(LayoutData(184), off, << 255, 254 >>)) :
        before \in {NewPrinter, OldPrinter},
        off \in {5, 25, 81, 92, 132, 143} }

\* whole replies of a printer with hardware 5.1 and the given firmware
\* version on the given protocol version, every string empty; a firmware
\* minor above 127 reads as a negative number where it is one signed byte
VersionInputs(majors) ==
    { IdentityInput(NewPrinter, major, minor,
                    IF minor \in {0, 1, 2}
                    THEN IdentitySample(minor, 5, fw_major, fw_minor, fw_revision)
                    ELSE << 1, 5, fw_major >> \o Zeros(178)) :
        major \in majors, minor \in 0..3, fw_major \in 4..7,
        fw_minor \in {0, 1, 2, 8, 9, 10, 219, 220, 221},
        fw_revision \in {0, 32, 33, 34, 57, 58, 59} }

IdentityInputs(majors) ==
    LayoutInputs \cup NozzleInputs \cup BadTextInputs \cup VersionInputs(majors)

NoFlags == [k \in Capabilities |-> FALSE]

InitIdentity ==
    /\ InitDevice
    /\ InitDecoders
    /\ NoSearch
    /\ NoCodec
    /\ NoCoordinator
    /\ idInput \in IdentityInputs(0..2)
    /\ idResult = [phase |-> "pending"]

\* _apply_printer_info runs on the reply
DecodeIdentity ==
    /\ idResult.phase = "pending"
    /\ LET r == _apply_printer_info(idInput.before, idInput.protocol_major,
                                    idInput.protocol_minor, idInput.data)
       IN  idResult' = [phase |-> "decoded", exc |-> r.exc, dev |-> r.dev,
                        flags |-> NoFlags]
    /\ UNCHANGED <<idInput, devVars, coVars, stInput, stResult, evVars, cdVars, searchVars>>

\* the four capability properties of the device are read
ReadFlags ==
    /\ idResult.phase = "decoded"
    /\ LET d1 == ReadCapability("supports_utf8", idResult.dev)
           d2 == ReadCapability("supports_clean_filesystem", d1)
           d3 == ReadCapability("supports_preheat_journal", d2)
           d4 == ReadCapability("supports_profiles", d3)
       IN  idResult' = [idResult EXCEPT
                            !.phase = "read",
                            !.dev = d4,
                            !.flags = [k \in Capabilities |-> CapabilityOf(k, d4)]]
    /\ UNCHANGED <<idInput, devVars, coVars, stInput, stResult, evVars, cdVars, searchVars>>

NextIdentity == DecodeIdentity \/ ReadFlags

SpecIdentity == InitIdentity /\ [][NextIdentity]_vars

(***************************************************************************)
(* Properties                                                              *)
(***************************************************************************)
\* C1 (Spec): under any interleaving of calls to the guarded operations of
\* one device, at most one exchange is in flight: no second task has a
\* socket open, sends or reads while another task's exchange has not ended.
C1_OneExchangeInFlight ==
    \A c1, c2 \in Tasks :
        (/\ pc[c1] \in {"endpoint", "await", "read"}
         /\ pc[c2] \in {"endpoint", "await", "read"}) => c1 = c2

\* two callers blocked behind an exchange that has sent its request and is
\* reading
C1_Witness ==
    \E c \in Tasks :
        /\ pc[c] = "read"
        /\ sent[c] # <<>>
        /\ \A o \in Tasks \ {c} : pc[o] = "lock_wait"

\* C2 (SpecState): when the series-2 override does not apply, the events
\* list of the snapshot get_printer_state returns holds, in slot order, one
\* Event for every non-empty event slot of the payload and nothing else.
C2_EventsOfPayload ==
    (stResult.exc = "return" /\ ~stResult.events_require_upgrade) =>
        LET major == stInput.response.protocol_major IN
        stResult.events =
            EventList(major, stInput.response.data, 307 + FirstOffset(major),
                      IF major = 2 THEN 10 ELSE 5, IF major = 2 THEN 6 ELSE 4)

\* C3 (SpecState): for every state payload of the correct length for its
\* major, get_printer_state returns a snapshot, also when the state, status,
\* pause_reason or stop_reason field is outside its enumeration, and the
\* snapshot carries the raw integers.
C3_UnknownValuesKept ==
    LET major == stInput.response.protocol_major
        data == stInput.response.data
    IN  (/\ stResult.exc # "pending"
         /\ major \in {0, 1, 2}
         /\ Len(data) + 8 = ExpectedStateSize(major)) =>
            /\ stResult.exc = "return"
            /\ stResult.state = I32(data, 0)
            /\ stResult.status = I32(data, 4)
            /\ stResult.pause_reason = U32(data, 327 + FirstOffset(major))
            /\ stResult.stop_reason = U32(data, 331 + FirstOffset(major))

\* C4 (SpecTransport): a send_request call with num_responses = None that
\* has sent its request ends, unless it is cancelled or meets a malformed
\* frame, by returning the list of frames collected so far without raising.
C4_UnconstrainedReturns ==
    (/\ pc[RawTask] = "done"
     /\ req[RawTask].num_responses = None
     /\ sent[RawTask] # <<>>
     /\ outcome[RawTask] \notin {"CancelledError", "ValueError"}) =>
        outcome[RawTask] = "return"

\* C5 (SpecTransport): a send_request call with a specific num_responses n
\* that returns, returns exactly n frames; once a read has timed out the
\* call has ended with TimeoutError and returned nothing.
C5_ExactlyNOrTimeout ==
    req[RawTask].num_responses # None =>
        /\ (pc[RawTask] = "done" /\ outcome[RawTask] = "return") =>
                Len(result[RawTask]) = req[RawTask].num_responses[1]
        /\ raised[RawTask] = "timeout" =>
                /\ pc[RawTask] = "done"
                /\ outcome[RawTask] = "TimeoutError"
                /\ result[RawTask] = <<>>

\* two frames were asked for, one was collected, then a read timed out
C5_Witness ==
    /\ req[RawTask].num_responses = Some(2)
    /\ Len(declared[RawTask]) = 1
    /\ raised[RawTask] = "timeout"
    /\ outcome[RawTask] = "TimeoutError"

\* C6 (SpecTransport): every frame send_request returns carries exactly the
\* bytes its header declared beyond the 8 of the header; reassembly goes on
\* only while the buffer is shorter than the declared length; and a buffer
\* that overshoots it (a declared length below 8 included) has ended the
\* call with ValueError, nothing returned.
C6_FrameLength ==
    /\ (pc[RawTask] = "done" /\ outcome[RawTask] = "return") =>
            /\ Len(declared[RawTask]) = Len(result[RawTask])
            /\ \A i \in 1..Len(result[RawTask]) :
                  Len(result[RawTask][i].data) = declared[RawTask][i] - 8
    /\ (pc[RawTask] \in {"await", "read"} /\ parsed[RawTask] # None) =>
            Len(payload[RawTask]) < parsed[RawTask][1].payload_size
    /\ raised[RawTask] = "decoding mismatch" =>
            /\ pc[RawTask] = "done"
            /\ outcome[RawTask] = "ValueError"
            /\ result[RawTask] = <<>>

\* a first frame was collected, the second overshot its declared length
C6_Witness ==
    /\ raised[RawTask] = "decoding mismatch"
    /\ Len(declared[RawTask]) = 1
    /\ delivered[RawTask] >= 2
    /\ pc[RawTask] = "done"

\* C7 (SpecTransport): while a frame is reassembled its header has been
\* parsed at most once, and exactly when 8 bytes or more are in the buffer;
\* a parsed header that is kept, and every returned frame, agrees with each
\* supplied expectation; a mismatch has ended the call with ValueError,
\* nothing returned and nothing read after it.
C7_HeaderParsedOnce ==
    LET r == req[RawTask] IN
    /\ nparse[RawTask] <= 1
    /\ pc[RawTask] \in {"await", "read"} =>
          /\ (parsed[RawTask] = None) = (Len(payload[RawTask]) < 8)
          /\ (parsed[RawTask] = None) = (nparse[RawTask] = 0)
          /\ parsed[RawTask] # None =>
                LET h == parsed[RawTask][1] IN
                /\ r.expect_payload_size \in {None, Some(h.payload_size)}
                /\ r.expect_command_code \in {None, Some(h.command_code)}
                /\ r.expect_protocol_major \in {None, Some(h.protocol_major)}
                /\ r.expect_protocol_minor \in {None, Some(h.protocol_minor)}
    /\ (pc[RawTask] = "done" /\ outcome[RawTask] = "return") =>
          \A i \in 1..Len(result[RawTask]) :
              /\ r.expect_payload_size \in {None, Some(declared[RawTask][i])}
              /\ r.expect_command_code \in {None, Some(result[RawTask][i].command_code)}
              /\ r.expect_protocol_major \in {None, Some(result[RawTask][i].protocol_major)}
              /\ r.expect_protocol_minor \in {None, Some(result[RawTask][i].protocol_minor)}
    /\ raised[RawTask] = "header mismatch" =>
          /\ pc[RawTask] = "done"
          /\ outcome[RawTask] = "ValueError"
          /\ result[RawTask] = <<>>

\* the header of the second frame, parsed once, did not match: the call
\* ended there, the first frame is not returned
C7_Witness ==
    /\ raised[RawTask] = "header mismatch"
    /\ nparse[RawTask] = 1
    /\ Len(declared[RawTask]) = 1
    /\ pc[RawTask] = "done"

\* C8 (FairSpecTransport): every send_request call with a specific
\* num_responses ends, whatever the peer delivers.
C8_ExchangeEnds ==
    (pc[RawTask] = "endpoint" /\ req[RawTask].num_responses # None)
        ~> (pc[RawTask] = "done")

\* C9 (Spec): the lock is held only by a guarded operation that is still
\* running, whatever way the operations before it ended; and when the lock
\* is free while callers wait for it, one of them is able to run.
C9_LockReleased ==
    /\ locked => \E c \in Tasks : pc[c] \in {"endpoint", "await", "read"}
    /\ (~locked /\ \E c \in Tasks : pc[c] = "lock_wait") =>
            \E c \in Tasks : pc[c] = "lock_wait" /\ fut[c] # "pending"

\* an operation ended with an exception, the lock is free and the caller
\* that waited for it has been woken
C9_Witness ==
    \E c, w \in Tasks :
        /\ pc[c] = "done"
        /\ outcome[c] \in {"ValueError", "TimeoutError", "CancelledError", "OSError"}
        /\ pc[w] = "lock_wait"
        /\ fut[w] = "done"
        /\ ~locked

\* C10 (SpecTransport): a send_request call holds one open socket while it
\* runs, and once it has ended, in whatever way, neither its socket nor its
\* datagram endpoint is open.
C10_SocketClosed ==
    /\ pc[RawTask] \in {"endpoint", "await", "read"} => sock[RawTask] = "open"
    /\ pc[RawTask] = "done" =>
          /\ sock[RawTask] = "closed"
          /\ transport[RawTask] # "open"

\* the call was cancelled while it awaited a datagram; socket and endpoint
\* are closed
C10_Witness ==
    /\ pc[RawTask] = "done"
    /\ outcome[RawTask] = "CancelledError"
    /\ sent[RawTask] # <<>>
    /\ sock[RawTask] = "closed"
    /\ transport[RawTask] = "closed"

\* C12 (SpecState): get_printer_state returns a snapshot only for a
\* response of protocol major 0, 1 or 2 whose frame (header and data) is
\* 343, 344 or 387 bytes long respectively; for any other major or length
\* it raises ValueError and returns nothing.
C12_SizeByMajor ==
    LET major == stInput.response.protocol_major
        size == Len(stInput.response.data) + 8
        accepted == \/ major = 0 /\ size = 343
                    \/ major = 1 /\ size = 344
                    \/ major = 2 /\ size = 387
    IN  stResult.exc # "pending" =>
            /\ stResult.exc = "return" => accepted
            /\ ~accepted => stResult.exc = "ValueError"

\* a major-1 response one byte too long was rejected
C12_Witness ==
    /\ stResult.exc = "ValueError"
    /\ stInput.response.protocol_major = 1
    /\ Len(stInput.response.data) + 8 = 345

\* C17 (SpecState): in a returned snapshot, major 0 leaves ready and
\* preheat_state false; major 1 sets ready exactly when the flag byte
\* (data[16]) is non-zero and leaves preheat_state false; major 2 sets
\* ready to bit 0 and preheat_state to bit 1 of the 4-byte word at data
\* offset 8.
C17_ReadyAndPreheat ==
    LET major == stInput.response.protocol_major
        data == stInput.response.data
        word == data[9] + 256 * data[10] + 65536 * data[11]
    IN  stResult.exc = "return" =>
            /\ major = 0 => ~stResult.ready /\ ~stResult.preheat_state
            /\ major = 1 => /\ stResult.ready = (data[17] # 0)
                            /\ ~stResult.preheat_state
            /\ major = 2 => /\ stResult.ready = (word % 2 = 1)
                            /\ stResult.preheat_state = ((word \div 2) % 2 = 1)

\* a major-2 snapshot with preheat_state set and ready clear
C17_Witness ==
    /\ stResult.exc = "return"
    /\ stInput.response.protocol_major = 2
    /\ stResult.preheat_state
    /\ ~stResult.ready

\* C13 (SpecEvent): for protocol major 0 or 1 a slot with id <= 0 gives no
\* event, and a slot with id > 0 gives an Event with code = id, severity
\* UNKNOWN (-1) and timestamp 0.  (EventSource defines no UNKNOWN member:
\* the source is left out of the statement.)
C13_LegacyEventUnknown ==
    (evResult.done /\ evInput.major \in {0, 1}) =>
        LET id == I32(evInput.content, 0) IN
        IF id <= 0 THEN evResult.event = None
        ELSE /\ evResult.event # None
             /\ evResult.event[1].code = id
             /\ evResult.event[1].severity = 0 - 1
             /\ evResult.event[1].timestamp = 0

\* C14 (SpecEvent): for protocol major 2 a slot with id = 0 gives no event;
\* otherwise severity = id & 7, source = (id >> 10) & 63, code =
\* (id >> 3) & 127 and the timestamp as read, values outside EventSeverity
\* or EventSource kept as they are.
C14_PackedEvent ==
    (evResult.done /\ evInput.major = 2) =>
        LET c == evInput.content
            id == c[1] + 256 * c[2]
            ts == c[3] + 256 * c[4] + 65536 * c[5] + 16777216 * c[6]
        IN  IF id = 0 THEN evResult.event = None
            ELSE evResult.event =
                    << [ code |-> (id \div 8) % 128,
                         severity |-> id % 8,
                         source |-> (id \div 1024) % 64,
                         timestamp |-> ts ] >>

\* an event whose severity (7) and source (63) are outside their
\* enumerations
C14_Witness ==
    /\ evResult.done
    /\ evInput.major = 2
    /\ evResult.event # None
    /\ evResult.event[1].severity \notin EventSeverityValues
    /\ evResult.event[1].source \notin EventSourceValues
    /\ evResult.event[1].timestamp = 2147483647

\* C15 (SpecEvent), as amended: a major-2 slot whose id is 0x040A decodes to
\* severity 2, source 1 and code 1.
C15_Example040A ==
    (evResult.done /\ evInput.major = 2 /\ U16(evInput.content, 0) = 1034) =>
        /\ evResult.event # None
        /\ evResult.event[1].severity = 2
        /\ evResult.event[1].source = 1
        /\ evResult.event[1].code = 1

\* the slot with id 0x040A has been parsed
C15_Witness ==
    /\ evResult.done
    /\ evInput.major = 2
    /\ U16(evInput.content, 0) = 1034
    /\ evResult.event # None

\* C15 as stated: a major-2 slot whose id is 0x040A decodes to severity 2,
\* source 1 and code 65.
C15_AsStated ==
    (evResult.done /\ evInput.major = 2 /\ U16(evInput.content, 0) = 1034) =>
        /\ evResult.event # None
        /\ evResult.event[1].severity = 2
        /\ evResult.event[1].source = 1
        /\ evResult.event[1].code = 65

\* C11 (SpecLife): after any sequence of identity refreshes, state queries
\* and capability reads, each of the four capability flags, read from the
\* device, equals its predicate applied to the protocol and firmware
\* version fields the device holds.
C11_CapabilitiesCurrent ==
    \A k \in Capabilities : CapabilityOf(k, dev) = CapabilityBody(k, dev)

\* C16 (SpecLife): a returned snapshot has events_require_upgrade set, and
\* no events, exactly when the response's protocol major is 1 or 2 and the
\* hardware version the device holds at the time of the query (the one the
\* latest identity refresh decoded) is a series-2 model.
C16_SeriesTwoOverride ==
    stResult.exc = "return" =>
        LET upgrade == /\ stInput.response.protocol_major \in {1, 2}
                       /\ IsSeries2(PrinterTypeOf(stInput.hw_version_major))
        IN  /\ stResult.events_require_upgrade = upgrade
            /\ upgrade => stResult.events = <<>>

\* C18 (SpecSearch): the list search_printers returns holds, first, one
\* device for every distinct non-empty serial among the well-formed
\* identity replies collected (built from the first reply with that serial
\* in reply order, whatever address the later ones come from), then one
\* device for every well-formed reply with an empty serial, each from a
\* different reply address (host and port); no two devices of the list
\* share a non-empty serial.
C18_DiscoveryResult ==
    searchOutcome = "return" =>
        LET n == Len(target)
            P(i) == ParseReply(target[i].addr, target[i].data)
            valid(i) == P(i).exc = "none"
            serial(i) == SerialOf(P(i).printer)
            bySerial == { i \in 1..n :
                            /\ valid(i)
                            /\ serial(i) # <<>>
                            /\ \A j \in 1..(i - 1) :
                                  valid(j) => serial(j) # serial(i) }
            byAddr == { i \in 1..n : valid(i) /\ serial(i) = <<>> }
            nth(S, m) == CHOOSE i \in S : Cardinality({ j \in S : j < i }) = m - 1
            ns == Cardinality(bySerial)
            na == Cardinality(byAddr)
        IN  /\ Len(searchResult) = ns + na
            /\ \A m \in 1..ns : searchResult[m] = P(nth(bySerial, m)).printer
            /\ \A m \in 1..na : searchResult[ns + m] = P(nth(byAddr, m)).printer
            /\ \A i, j \in byAddr : i # j => target[i].addr # target[j].addr
            /\ \A a, b \in 1..(ns + na) :
                  (a # b /\ SerialOf(searchResult[a]) # <<>>)
                      => SerialOf(searchResult[a]) # SerialOf(searchResult[b])

\* three replies were collected, the first two with the serial "S1" from
\* different addresses, the third with an empty serial: two devices
C18_Witness ==
    /\ searchOutcome = "return"
    /\ Len(target) = 3
    /\ Len(searchResult) = 2
    /\ target[1].addr # target[2].addr
    /\ target[1].data = EncodeFrame(1, 1, 12, SearchIdentity(<<83, 49>>))
    /\ target[2].data = target[1].data
    /\ SerialOf(searchResult[1]) = <<83, 49>>
    /\ searchResult[1].host = target[1].addr[1]
    /\ SerialOf(searchResult[2]) = <<>>

\* C18 as stated: no two returned devices with an empty serial have the
\* same address (host and port of the device object).
C18_AsStated ==
    searchOutcome = "return" =>
        \A a, b \in 1..Len(searchResult) :
            (/\ a # b
             /\ SerialOf(searchResult[a]) = <<>>
             /\ SerialOf(searchResult[b]) = <<>>)
                => <<searchResult[a].host, searchResult[a].port>>
                       # <<searchResult[b].host, searchResult[b].port>>

\* C19 (SpecSearch): search_printers never ends with an error raised by
\* the content of a reply; when it returns, every device of the list was
\* built from a well-formed identity reply, and every well-formed identity
\* reply collected is represented in the list (by a device with its serial,
\* or by its own device when the serial is empty), whatever malformed
\* replies were collected with it.
C19_RepliesIsolated ==
    /\ searchOutcome \in {"none", "return", "OSError", "CancelledError"}
    /\ searchOutcome = "return" =>
        LET n == Len(target)
            P(i) == ParseReply(target[i].addr, target[i].data)
            valid(i) == P(i).exc = "none"
        IN  /\ \A m \in 1..Len(searchResult) :
                  \E i \in 1..n : valid(i) /\ searchResult[m] = P(i).printer
            /\ \A i \in 1..n : valid(i) =>
                  \E m \in 1..Len(searchResult) :
                      IF SerialOf(P(i).printer) # <<>>
                      THEN SerialOf(searchResult[m]) = SerialOf(P(i).printer)
                      ELSE searchResult[m] = P(i).printer

\* a datagram shorter than a header and an identity reply cut short were
\* collected before a well-formed reply: the list holds the one device
C19_Witness ==
    /\ searchOutcome = "return"
    /\ Len(target) = 3
    /\ Len(target[1].data) < 8
    /\ target[2].data = EncodeFrame(1, 1, 12, SubSeq(IdentityPayload, 1, 30))
    /\ target[3].data = EncodeFrame(1, 1, 12, SearchIdentity(<<83, 50>>))
    /\ Len(searchResult) = 1
    /\ searchResult[1].host = target[3].addr[1]

\* C20 (SpecSearch): once search_printers has ended, by success, by an
\* error while binding or creating the listener endpoint, by an error
\* while sending a probe or by cancellation, its socket is closed and its
\* endpoint is not open.
C20_ListenerClosed ==
    (searchPc = "done" /\ searchOutcome # "none") =>
        /\ searchSock = "closed"
        /\ searchTransport # "open"

\* C21 (SpecSearch): the probes are handed to sendto one at a time, each
\* followed by the sleep; search_printers returns only after exactly
\* "attempts" probes, with the listener closed, and the list it returns is
\* the parse of the replies the collector held when the listener was closed:
\* a datagram arriving later changes neither the replies nor the list.
C21_ProbesThenParse ==
    /\ [](searchOutcome = "return" =>
            /\ attempt = attempts
            /\ searchTransport = "closed"
            /\ searchResult = Sweep(target, 1, <<>>, <<>>).value)
    /\ [][/\ attempt' # attempt =>
                (attempt' = attempt + 1 /\ searchPc = "send" /\ searchPc' = "sleep")
          /\ searchTransport = "closed" =>
                (target' = target /\ searchResult' = searchResult)]_vars

\* a sweep of two probes returned an empty list, and a datagram arrived
\* after the listener was closed
C21_Witness ==
    /\ searchOutcome = "return"
    /\ attempts = 2
    /\ attempt = 2
    /\ target = <<>>
    /\ received > 0

RECURSIVE FrameStart(_, _)
\* the number of bytes of the frames before frame k, de being the declared
\* lengths of the frames
FrameStart(de, k) == IF k = 1 THEN 0 ELSE FrameStart(de, k - 1) + de[k - 1]

\* C22 (SpecTransport): the frames send_request returns are consecutive
\* pieces of the bytes it consumed, in the order they were completed: frame
\* k is made of exactly the bytes consumed after frame k-1 was completed
\* (header first, then its data), and no consumed byte belongs to two
\* frames or to none.
C22_FramesInOrder ==
    (pc[RawTask] = "done" /\ outcome[RawTask] = "return") =>
        LET rs == result[RawTask]
            de == declared[RawTask]
            stream == consumed[RawTask]
        IN  /\ Len(de) = Len(rs)
            /\ Len(stream) = FrameStart(de, Len(de) + 1)
            /\ \A k \in 1..Len(rs) :
                  LET from == FrameStart(de, k)
                      h == _unpack_payload_header(SubSeq(stream, from + 1, from + 8))
                  IN  /\ h.payload_size = de[k]
                      /\ rs[k].protocol_major = h.protocol_major
                      /\ rs[k].protocol_minor = h.protocol_minor
                      /\ rs[k].command_code = h.command_code
                      /\ rs[k].data = SubSeq(stream, from + 9, from + de[k])

\* two frames were returned, the second one reassembled from two datagrams
C22_Witness ==
    /\ pc[RawTask] = "done"
    /\ outcome[RawTask] = "return"
    /\ Len(result[RawTask]) = 2
    /\ delivered[RawTask] = 3
    /\ Len(consumed[RawTask]) = 20

\* C23 (SpecTransport): a send_request call hands at most one datagram to
\* the socket, the 8-byte header followed by the data of the request; a
\* call that reads, and a call that ended by return, mismatch (ValueError),
\* timeout or TypeError, has sent exactly that one datagram.
C23_OneDatagram ==
    LET r == req[RawTask]
        frame == PackHeader(r.protocol_major, r.protocol_minor,
                            r.command_code, Len(r.data) + 8) \o r.data
        reading == pc[RawTask] \in {"await", "read"}
        ended == /\ pc[RawTask] = "done"
                 /\ outcome[RawTask] \in {"return", "ValueError",
                                          "TimeoutError", "TypeError"}
    IN  /\ Len(sent[RawTask]) <= 1
        /\ (reading \/ ended) => sent[RawTask] = << frame >>

\* a call expecting two frames with three bytes of data timed out after
\* a first frame: one datagram of 11 bytes was sent
C23_Witness ==
    /\ pc[RawTask] = "done"
    /\ outcome[RawTask] = "TimeoutError"
    /\ req[RawTask].num_responses = Some(2)
    /\ Len(declared[RawTask]) = 1
    /\ Len(sent[RawTask]) = 1
    /\ Len(sent[RawTask][1]) = 11

(***************************************************************************)
(* The frame codec on arguments of its own: the head of send_request and   *)
(* _unpack_payload_header applied to the datagram it sent.                 *)
(***************************************************************************)
\* n bytes of data
CodecData(n) == [i \in 1..n |-> (i * 7 + 3) % 256]

CodecInput(protocol_major, protocol_minor, command_code, data) ==
    [ protocol_major |-> protocol_major,
      protocol_minor |-> protocol_minor,
      command_code   |-> command_code,
      data           |-> data ]

SmallCodecInputs ==
    { CodecInput(major, minor, command, data) :
        major \in {0, 1, 255, 256}, minor \in {0, 2, 255},
        command \in {0, 255, 256, 65535},
        data \in {None} \cup { Some(CodecData(n)) : n \in {0, 1, 3, 300} } }

LargeCodecInputs(lengths) ==
    { CodecInput(1, minor, command, Some(CodecData(n))) :
        minor \in {0, 255}, command \in {12, 65535}, n \in lengths }

\* "bytes(data) if data is not None else b''"
BytesOf(data) == IF data = None THEN <<>> ELSE data[1]

CodecResult(phase, exc, frame, s, datagrams, header, rest) ==
    [ phase |-> phase, exc |-> exc, frame |-> frame, sock |-> s,
      sent |-> datagrams, header |-> header, rest |-> rest ]

InitCodec ==
    /\ InitDevice
    /\ InitDecoders
    /\ NoSearch
    /\ NoIdentity
    /\ NoCoordinator
    /\ cdInput \in SmallCodecInputs
                    \cup LargeCodecInputs({MaxData - 1, MaxData, MaxData + 1,
                                           MaxData + 9, MaxUdpPayload - 8,
                                           MaxUdpPayload - 7})
    /\ cdResult = [phase |-> "pending"]

\* send_request packs the header and prepends it to the data
EncodeRequest ==
    /\ cdResult.phase = "pending"
    /\ LET data == BytesOf(cdInput.data) IN
       cdResult' =
          IF PackFails(cdInput.protocol_major, cdInput.protocol_minor,
                       cdInput.command_code, Len(data) + 8)
          THEN CodecResult("done", "struct.error", <<>>, "none", <<>>, None, <<>>)
          ELSE CodecResult("encoded", "none",
                           EncodeFrame(cdInput.protocol_major,
                                       cdInput.protocol_minor,
                                       cdInput.command_code, data),
                           "none", <<>>, None, <<>>)
    /\ UNCHANGED <<cdInput, devVars, coVars, stInput, stResult, evVars, idVars, searchVars>>

\* send_request creates its socket and the datagram endpoint on it
OpenSocket ==
    /\ cdResult.phase = "encoded"
    /\ cdResult' = [cdResult EXCEPT !.phase = "endpoint", !.sock = "open"]
    /\ UNCHANGED <<cdInput, devVars, coVars, stInput, stResult, evVars, idVars, searchVars>>

\* sock.sendto(payload, self.addr): the system call refuses a datagram
\* longer than UDP over IPv4 carries, and the finally blocks close the
\* endpoint and the socket
SendFrame ==
    /\ cdResult.phase = "endpoint"
    /\ cdResult' = IF Len(cdResult.frame) > MaxUdpPayload
                   THEN [cdResult EXCEPT !.phase = "done", !.exc = "OSError",
                                         !.sock = "closed"]
                   ELSE [cdResult EXCEPT !.phase = "sent",
                                         !.sent = Append(@, cdResult.frame)]
    /\ UNCHANGED <<cdInput, devVars, coVars, stInput, stResult, evVars, idVars, searchVars>>

\* _unpack_payload_header is applied to the frame
ReadHeader ==
    /\ cdResult.phase \in {"encoded", "endpoint", "sent"}
    /\ cdResult.header = None
    /\ LET p == cdResult.frame IN
       cdResult' = [cdResult EXCEPT !.header = Some(_unpack_payload_header(p)),
                                    !.rest = SubSeq(p, 9, Len(p))]
    /\ UNCHANGED <<cdInput, devVars, coVars, stInput, stResult, evVars, idVars, searchVars>>

NextCodec == EncodeRequest \/ OpenSocket \/ SendFrame \/ ReadHeader

SpecCodec == InitCodec /\ [][NextCodec]_vars

(***************************************************************************)
(* A burst: one send_request call whose peer answers with the header of a  *)
(* frame and then the data one byte per datagram, faster than the reader    *)
(* may run.                                                                *)
(***************************************************************************)
\* the k-th datagram of the burst: the header of a frame with QueueCapacity
\* bytes of data, then the bytes 2, 3, ...
BurstDatagram(k) ==
    IF k = 1 THEN PackHeader(1, 0, 9, 8 + QueueCapacity) ELSE << k >>

\* the bytes of the first n datagrams of the burst, in arrival order
Arrived(n) ==
    IF n = 0 THEN <<>>
    ELSE BurstDatagram(1) \o [i \in 1..(n - 1) |-> i + 1]

RECURSIVE Concat(_)
\* b"".join(q)
Concat(q) == IF q = <<>> THEN <<>> ELSE Head(q) \o Concat(Tail(q))

\* send_request(1, 0, 9, num_responses=n) is called
StartBurst(c) ==
    /\ pc[c] = "idle"
    /\ \E n \in {Some(1), Some(2)} :
          BeginExchange(c, "raw", Request(1, 0, 9, <<>>, n, None, None, None, None))
    /\ History(c, <<>>, 0, "none", 0, <<>>)
    /\ Consumed(c, <<>>)
    /\ UNCHANGED <<lockVars, dev, decVars>>

\* datagram_received is called with the next datagram of the burst
Arrive(c) ==
    /\ pc[c] \in {"await", "read"}
    /\ transport[c] = "open"
    /\ delivered[c] < MaxBurst
    /\ queue' = [queue EXCEPT ![c] = PutNowait(@, BurstDatagram(delivered[c] + 1))]
    /\ pc' = [pc EXCEPT ![c] = "read"]
    /\ delivered' = [delivered EXCEPT ![c] = @ + 1]
    /\ UNCHANGED <<req, op, lockVars, sock, transport, payload, parsed, responses,
                   outcome, result, dev, sent, raised, nparse, declared, consumed,
                   decVars>>

NextBurst ==
    \/ StartBurst(RawTask)
    \/ \E how \in {"ok", "endpoint fails", "sendto fails"} : EndpointReady(RawTask, how)
    \/ Arrive(RawTask)
    \/ ReadPayload(RawTask)
    \/ Timeout(RawTask)
    \/ CancelExchange(RawTask)

SpecBurst == Init /\ [][NextBurst]_vars

\* C24 (SpecIdentity): on protocol minor 0, 1 and 2 a reply long enough is
\* decoded without error and every field is read at the sum of the widths
\* of the fields before it: hardware minor (1), hardware major (1), firmware
\* minor (1 byte on minor 0; 2 bytes on minor 1; revision 1 byte then minor
\* 1 byte on minor 2), firmware major (1), name (20), serial (50), mac (6),
\* then for the first and the second toolhead name (10), nozzle type (1),
\* profile name (40).
C24_CursorLayout ==
    LET data == idInput.data
        m == idInput.protocol_minor
        d == idResult.dev
        s8(off) == IF data[off + 1] >= 128 THEN data[off + 1] - 256
                   ELSE data[off + 1]
        s16(off) == LET u == data[off + 1] + 256 * data[off + 2]
                    IN  IF u >= 32768 THEN u - 65536 ELSE u
        o == IF m = 0 THEN 3 ELSE 4
        text(off, n) == Some(decode_standard_string(Utf8Of(d),
                                                    SubSeq(data, off + 1, off + n)))
    IN  (idResult.phase # "pending" /\ m \in 0..2) =>
            /\ (data = LayoutData(Len(data)) /\ Len(data) >= o + 179)
                   => idResult.exc = "return"
            /\ idResult.exc = "return" =>
                  /\ d.hw_version_minor = s8(0)
                  /\ d.hw_version_major = s8(1)
                  /\ m = 0 => d.fw_version_minor = s8(2)
                  /\ m = 1 => d.fw_version_minor = s16(2)
                  /\ m = 2 => /\ d.fw_version_revision = s8(2)
                              /\ d.fw_version_minor = s8(3)
                  /\ d.fw_version_major = s8(o)
                  /\ d.name = text(o + 1, 20)
                  /\ d.serial = text(o + 21, 50)
                  /\ d.mac = Some(MacText(SubSeq(data, o + 72, o + 77)))
                  /\ d.first_nozzle_name = text(o + 77, 10)
                  /\ d.first_nozzle_type = s8(o + 87)
                  /\ d.first_profile_name = text(o + 88, 40)
                  /\ d.second_nozzle_name = text(o + 128, 10)
                  /\ d.second_nozzle_type = s8(o + 138)
                  /\ d.second_profile_name = text(o + 139, 40)

\* a whole reply of protocol minor 2 was decoded: revision from the third
\* byte, firmware minor from the fourth, firmware major from the fifth
C24_Witness ==
    /\ idResult.phase = "decoded"
    /\ idResult.exc = "return"
    /\ idInput.protocol_minor = 2
    /\ idInput.data = LayoutData(184)
    /\ idResult.dev.fw_version_revision = 54
    /\ idResult.dev.fw_version_minor = 61
    /\ idResult.dev.fw_version_major = 68
    /\ Len(idResult.dev.second_profile_name[1]) = 40

\* C25 (SpecIdentity): a whole reply of protocol 1.1 is decoded without
\* error whatever its two nozzle-type bytes are; each nozzle type is the
\* byte read as a signed number (a member of the enumeration or not), and
\* the fields after each nozzle type are decoded from their own bytes.
C25_UnknownNozzle ==
    LET data == idInput.data
        d == idResult.dev
        s8(off) == IF data[off + 1] >= 128 THEN data[off + 1] - 256
                   ELSE data[off + 1]
        ascii(off, n) == Some(decode_standard_string(Utf8Of(d),
                                                     SubSeq(data, off + 1, off + n)))
    IN  (/\ idResult.phase # "pending"
         /\ idInput.before = NewPrinter
         /\ idInput.protocol_major = 1
         /\ idInput.protocol_minor = 1
         /\ Len(data) = 183) =>
            /\ idResult.exc = "return"
            /\ d.first_nozzle_type = s8(91)
            /\ d.first_profile_name = ascii(92, 40)
            /\ d.second_nozzle_name = ascii(132, 10)
            /\ d.second_nozzle_type = s8(142)
            /\ d.second_profile_name = ascii(143, 40)

\* the first nozzle code is 99, outside the enumeration, the second is 40
C25_Witness ==
    /\ idResult.phase = "decoded"
    /\ idResult.exc = "return"
    /\ idInput.data[92] = 99
    /\ idResult.dev.first_nozzle_type = 99
    /\ idResult.dev.second_nozzle_type = 40
    /\ Len(idResult.dev.second_profile_name[1]) = 40

RECURSIVE FieldOffset(_, _)
\* the sum of the widths of the fields before field k
FieldOffset(fields, k) ==
    IF k = 1 THEN 0 ELSE FieldOffset(fields, k - 1) + fields[k - 1].width

\* C26 (SpecIdentity): when _apply_printer_info ends with an error, some
\* field could not be unpacked or decoded; the protocol version and every
\* field before the first such field hold the values of the reply, and
\* that field and every field after it hold the values the device had
\* before the call.
C26_PartialUpdate ==
    (idResult.phase # "pending" /\ idResult.exc # "return") =>
        LET data == idInput.data
            d == idResult.dev
            fields == IdentityFields(idInput.protocol_minor)
            off(k) == FieldOffset(fields, k)
            fails(k) ==
                \/ ~Fits(data, off(k), fields[k].width)
                \/ /\ fields[k].kind = "text"
                   /\ DecodeFails(BytesDecode(Utf8Of(d),
                                              Slice(data, off(k), fields[k].width)))
            failing == { k \in 1..Len(fields) : fails(k) }
        IN  /\ failing # {}
            /\ d.protocol_major = idInput.protocol_major
            /\ d.protocol_minor = idInput.protocol_minor
            /\ \A k \in 1..Len(fields) :
                  IF \A j \in failing : k < j
                  THEN d[fields[k].attr] = FieldValue(d, fields[k], data, off(k))
                  ELSE d[fields[k].attr] = idInput.before[fields[k].attr]

\* a reply of 60 bytes, cut inside the serial, was applied to a device
\* identified before: new hardware version and name, old serial
C26_Witness ==
    /\ idResult.phase = "decoded"
    /\ idResult.exc = "struct.error"
    /\ idInput.before = OldPrinter
    /\ Len(idInput.data) = 60
    /\ idResult.dev.hw_version_major # OldPrinter.hw_version_major
    /\ idResult.dev.name # OldPrinter.name
    /\ idResult.dev.serial = OldPrinter.serial

\* C27 (SpecIdentity): the profiles flag read from a device identified for
\* the first time is: protocol_major = 1 and ((protocol_minor <= 1 and
\* (fw_major > 5 or (fw_major = 5 and fw_minor >= 220))) or protocol_minor
\* = 2); on protocol 1.1 firmware 5.220 has it and firmware 5.219 has not.
C27_Profiles ==
    (/\ idResult.phase = "read"
     /\ idResult.exc = "return"
     /\ idInput.before = NewPrinter) =>
        LET d == idResult.dev
            major == d.protocol_major
            minor == d.protocol_minor
            fw_major == d.fw_version_major
            fw_minor == d.fw_version_minor
            flag == idResult.flags["supports_profiles"]
        IN  /\ flag = (/\ major = 1
                       /\ \/ /\ minor <= 1
                             /\ (fw_major > 5 \/ (fw_major = 5 /\ fw_minor >= 220))
                          \/ minor = 2)
            /\ (major = 1 /\ minor = 1 /\ fw_major = 5 /\ fw_minor = 220) => flag
            /\ (major = 1 /\ minor = 1 /\ fw_major = 5 /\ fw_minor = 219) => ~flag

\* protocol 1.1 with firmware 5.220: profiles are supported
C27_Witness ==
    /\ idResult.phase = "read"
    /\ idResult.exc = "return"
    /\ idInput.before = NewPrinter
    /\ idResult.dev.protocol_major = 1
    /\ idResult.dev.protocol_minor = 1
    /\ idResult.dev.fw_version_major = 5
    /\ idResult.dev.fw_version_minor = 220
    /\ idResult.flags["supports_profiles"]

\* a >= b in the lexicographic order of sequences of the same length
LexGE(a, b) ==
    \/ a = b
    \/ \E i \in 1..Len(a) : a[i] > b[i] /\ \A j \in 1..(i - 1) : a[j] = b[j]

\* C28 (SpecIdentity): the flags read from a device identified for the
\* first time are threshold comparisons in lexicographic order: utf8 when
\* the protocol major is above 1, or is 1 with a minor above 2, or the
\* protocol is 1.2 and the firmware (major, minor) is at least (5, 9);
\* clean filesystem when the protocol is 1.2 and the firmware (major, minor,
\* revision) is at least (5, 9, 58); preheat journal when the protocol is
\* 1.2 and the firmware is at least (6, 1, 33).
C28_Thresholds ==
    (/\ idResult.phase = "read"
     /\ idResult.exc = "return"
     /\ idInput.before = NewPrinter) =>
        LET d == idResult.dev
            is12 == d.protocol_major = 1 /\ d.protocol_minor = 2
            fw2 == << d.fw_version_major, d.fw_version_minor >>
            fw3 == << d.fw_version_major, d.fw_version_minor,
                      d.fw_version_revision >>
        IN  /\ idResult.flags["supports_utf8"] =
                  (\/ d.protocol_major > 1
                   \/ d.protocol_major = 1 /\ d.protocol_minor > 2
                   \/ is12 /\ LexGE(fw2, << 5, 9 >>))
            /\ idResult.flags["supports_clean_filesystem"] =
                  (is12 /\ LexGE(fw3, << 5, 9, 58 >>))
            /\ idResult.flags["supports_preheat_journal"] =
                  (is12 /\ LexGE(fw3, << 6, 1, 33 >>))

\* protocol 1.2 with firmware 6.1.33: all three are supported
C28_Witness ==
    /\ idResult.phase = "read"
    /\ idResult.exc = "return"
    /\ idInput.before = NewPrinter
    /\ idResult.dev.protocol_major = 1
    /\ idResult.dev.protocol_minor = 2
    /\ idResult.dev.fw_version_major = 6
    /\ idResult.dev.fw_version_minor = 1
    /\ idResult.dev.fw_version_revision = 33
    /\ idResult.flags["supports_utf8"]
    /\ idResult.flags["supports_clean_filesystem"]
    /\ idResult.flags["supports_preheat_journal"]

\* C29 (SpecCodec): for protocol_major and protocol_minor in 0..255,
\* command_code in 0..65535 and data of at most 65527 bytes the encoding
\* does not fail, and the header read from the first 8 bytes of the frame has
\* the same protocol_major, protocol_minor and command_code, a reserved
\* field of 0 and a total length of len(data) + 8; the bytes after the
\* header are the data.
C29_HeaderRoundTrip ==
    LET data == BytesOf(cdInput.data) IN
    (/\ cdResult.phase \notin {"none", "pending"}
     /\ cdInput.protocol_major \in 0..255
     /\ cdInput.protocol_minor \in 0..255
     /\ cdInput.command_code \in 0..65535
     /\ Len(data) <= 65527) =>
        /\ cdResult.frame # <<>>
        /\ cdResult.header # None =>
              /\ cdResult.header[1].protocol_major = cdInput.protocol_major
              /\ cdResult.header[1].protocol_minor = cdInput.protocol_minor
              /\ cdResult.header[1].command_code = cdInput.command_code
              /\ cdResult.header[1].unknown_parameter = 0
              /\ cdResult.header[1].payload_size = Len(data) + 8
              /\ cdResult.rest = data

\* the header of the longest frame was read back: command 65535, minor 255,
\* total length 65535
C29_Witness ==
    /\ cdResult.phase = "encoded"
    /\ cdResult.header # None
    /\ Len(BytesOf(cdInput.data)) = 65527
    /\ cdInput.command_code = 65535
    /\ cdInput.protocol_minor = 255
    /\ cdResult.header[1].payload_size = 65535
    /\ cdResult.header[1].command_code = 65535
    /\ Len(cdResult.rest) = 65527

\* C30 (SpecCodec): when len(data) + 8 is above 65535, send_request ends
\* with an error, no socket was opened and nothing was sent; and the length
\* field of every datagram sent is the true length of the datagram.
C30_SizeOverflow ==
    /\ (/\ cdResult.phase \notin {"none", "pending"}
        /\ Len(BytesOf(cdInput.data)) + 8 > 65535) =>
            /\ cdResult.phase = "done"
            /\ cdResult.exc = "struct.error"
            /\ cdResult.sock = "none"
            /\ cdResult.sent = <<>>
    /\ (cdResult.phase \notin {"none", "pending"} /\ cdResult.sent # <<>>) =>
            U16(cdResult.sent[1], 6) = Len(cdResult.sent[1])

\* data of 65528 bytes in range otherwise: the call has ended with an error
C30_Witness ==
    /\ cdResult.phase = "done"
    /\ cdResult.exc = "struct.error"
    /\ Len(BytesOf(cdInput.data)) = 65528
    /\ cdInput.protocol_major = 1
    /\ cdInput.command_code = 12
    /\ cdResult.sock = "none"

\* the attributes of the device that _apply_printer_info assigns
IdentityAttrs ==
    { "protocol_major", "protocol_minor", "hw_version_minor",
      "hw_version_major", "fw_version_major", "fw_version_minor",
      "fw_version_revision", "name", "serial", "mac", "first_nozzle_name",
      "first_nozzle_type", "second_nozzle_name", "second_nozzle_type",
      "first_profile_name", "second_profile_name" }

IdentityOf(d) == [a \in IdentityAttrs |-> d[a]]

\* C31 (Spec): a step changes an identity attribute of the device only when
\* it ends the exchange of update_printer_info; and the snapshot a
\* get_printer_state call returns is the decoding of the frame of that call
\* alone.  (Every other operation, change_name included, leaves the
\* identity attributes as they were.)
C31_IdentityOnlyDecoded ==
    [][ /\ IdentityOf(dev') # IdentityOf(dev) =>
              \E c \in Tasks : /\ op[c] = "update_printer_info"
                               /\ pc[c] = "read"
                               /\ pc'[c] = "done"
        /\ \A c \in Tasks :
              (/\ op[c] = "get_printer_state"
               /\ pc[c] = "read"
               /\ pc'[c] = "done"
               /\ outcome'[c] = "return") =>
                  LET p == payload[c] \o Head(queue[c])
                  IN  /\ IdentityOf(dev') = IdentityOf(dev)
                      /\ result'[c] =
                            DecodePrinterState(
                                ParsedPayload(_unpack_payload_header(p), p),
                                IsSeries2(TypeOf(dev)), Utf8Of(dev))
      ]_vars

\* after update_printer_info stored the name of the identity reply,
\* change_name has sent the new name and its reply has arrived: the device
\* still holds the name of the identity reply
C31_Witness ==
    /\ pc["t2"] = "done"
    /\ outcome["t2"] = "return"
    /\ op["t1"] = "change_name"
    /\ pc["t1"] = "read"
    /\ sent["t1"] = << EncodeFrame(1, 0, 13,
                          Pack20s(encode_standard_string(FALSE, NewName))) >>
    /\ queue["t1"] = << ReplyFrame(req["t1"]) >>
    /\ dev.name = Some(<<80, 49>>)
    /\ dev.name # Some(RStrip(NewName))

\* the waiter's task was cancelled while it waited for the lock
IsCancelled(f) == f \in {"cancelled", "done_cancel"}

\* C32 (Spec): callers that wait for the lock of the device are admitted in
\* the order in which they started to wait: a caller that has to wait is
\* put behind those already waiting, a waiting caller takes the lock only
\* when every caller ahead of it in the queue was cancelled, and a caller
\* that arrives takes the lock at once only when every waiting caller was
\* cancelled.
C32_FifoAdmission ==
    [][ \A c \in Tasks :
          /\ (pc[c] = "idle" /\ pc'[c] = "lock_wait") =>
                waiters' = Append(waiters, c)
          /\ (pc[c] = "lock_wait" /\ pc'[c] = "lock_wait") =>
                \A a \in Tasks :
                    (\E i, j \in 1..Len(waiters') :
                        i < j /\ waiters'[i] = a /\ waiters'[j] = c) =>
                    (\E i, j \in 1..Len(waiters) :
                        i < j /\ waiters[i] = a /\ waiters[j] = c)
          /\ (pc[c] = "lock_wait" /\ pc'[c] # "lock_wait" /\ ~IsCancelled(fut[c])) =>
                \E j \in 1..Len(waiters) :
                    /\ waiters[j] = c
                    /\ \A i \in 1..(j - 1) : IsCancelled(fut[waiters[i]])
          /\ (pc[c] = "idle" /\ pc'[c] \notin {"idle", "lock_wait"}) =>
                \A i \in 1..Len(waiters) : IsCancelled(fut[waiters[i]])
      ]_vars

\* an operation has ended and released the lock while two callers wait: the
\* one that came first has been woken, the one behind it has not
C32_Witness ==
    /\ ~locked
    /\ Len(waiters) = 2
    /\ fut[waiters[1]] = "done"
    /\ fut[waiters[2]] = "pending"
    /\ \E c \in Tasks : pc[c] = "done" /\ outcome[c] = "return"

\* C33 (SpecState): in every response get_printer_state decodes into a
\* snapshot, the byte ranges it reads for two different fields (state,
\* status, ready byte or flag word, task name, progress, remaining, the four
\* temperatures, each event slot, pause_reason, stop_reason) have no byte in
\* common, and every range lies inside the data.
C33_FieldsDisjoint ==
    stResult.exc = "return" =>
        LET ranges == StateFieldRanges(stInput.response.protocol_major,
                                       stResult.events_require_upgrade)
        IN  /\ \A f \in ranges :
                  Fits(stInput.response.data, f.first, f.width)
            /\ \A f, g \in ranges :
                  (f.field # g.field \/ f.slot # g.slot) =>
                      \/ f.first + f.width <= g.first
                      \/ g.first + g.width <= f.first

\* C34 (SpecBurst): while the exchange runs, the bytes read_payload has
\* returned so far followed by the datagrams waiting in the queue are the
\* datagrams delivered to the endpoint, each once and in arrival order,
\* however many of them wait.
C34_NoDatagramLost ==
    pc[RawTask] \in {"await", "read"} =>
        consumed[RawTask] \o Concat(queue[RawTask]) = Arrived(delivered[RawTask])

(***************************************************************************)
(* The update coordinator (__init__.py): entities subscribe the update     *)
(* method named by their description, _async_update_data calls every       *)
(* subscribed method.  _update_methods is a Python dict: a table of         *)
(* entries in insertion order in which a deleted entry leaves a hole until  *)
(* an insertion finds the table full and rebuilds it.                       *)
(***************************************************************************)
\* one entity of each kind the platforms create: two sensors, the name
\* text, and the locate switch, whose description has no update method
Entities == {"state", "temperature", "name", "locate"}

UpdateMethodName(e) ==
    CASE e \in {"state", "temperature"} -> Some("get_printer_state")
      [] e = "name" -> Some("update_printer_info")
      [] OTHER -> None

\* entries a dict of up to five keys holds before it is rebuilt
DictUsable == 5

Hole == [live |-> FALSE, key |-> None, entities |-> <<>>]
Live(d) == {i \in 1..Len(d.entries) : d.entries[i].live}
Used(d) == Cardinality(Live(d))
Find(d, k) == {i \in Live(d) : d.entries[i].key = k}
IsLive(x) == x.live
Items(d) == SelectSeq(d.entries, IsLive)
Keys(d) == [i \in 1..Len(Items(d)) |-> Items(d)[i].key]
SeqRange(q) == {q[i] : i \in 1..Len(q)}
Without(q, x) == LET Keep(y) == y # x IN SelectSeq(q, Keep)
Least(S) == CHOOSE i \in S : \A j \in S : i <= j

\* d[k] = v for a key the dict does not hold
InsertKey(d, k, v) ==
    LET r == IF d.usable = 0
             THEN [entries |-> Items(d), usable |-> DictUsable - Used(d)]
             ELSE d
    IN  [entries |-> Append(r.entries, [live |-> TRUE, key |-> k, entities |-> v]),
         usable |-> r.usable - 1]

\* del d[k] for a key the dict holds
DeleteKey(d, k) ==
    LET i == CHOOSE i \in Find(d, k) : TRUE
    IN  [d EXCEPT !.entries[i] = Hole]

\* subscribe_entity: the dict after the call
SubscribeEntity(d, e) ==
    LET k == UpdateMethodName(e)
        d1 == IF Find(d, k) = {} THEN InsertKey(d, k, <<>>) ELSE d
        i == CHOOSE i \in Find(d1, k) : TRUE
    IN  IF e \in SeqRange(d1.entries[i].entities)
        THEN d1
        ELSE [d1 EXCEPT !.entries[i].entities = Append(@, e)]

\* unsubscribe_entity that leaves the emptied list in the dict
UnsubscribeKeepsKey(d, e) ==
    LET k == UpdateMethodName(e)
        found == Find(d, k)
    IN  IF found = {}
        THEN [exc |-> "KeyError", map |-> d]
        ELSE LET i == CHOOSE i \in found : TRUE
             IN  [exc |-> "none",
                  map |-> [d EXCEPT !.entries[i].entities = Without(@, e)]]

\* unsubscribe_entity: how the call ends and the dict after it
UnsubscribeEntity(d, e) ==
    LET k == UpdateMethodName(e)
        found == Find(d, k)
    IN  IF found = {}
        THEN \* get() hands out a fresh empty list, del finds no key
             [exc |-> "KeyError", map |-> d]
        ELSE LET i == CHOOSE i \in found : TRUE
                 rest == Without(d.entries[i].entities, e)
             IN  IF rest = <<>>
                 THEN [exc |-> "none", map |-> DeleteKey(d, k)]
                 ELSE [exc |-> "none",
                       map |-> [d EXCEPT !.entries[i].entities = rest]]

\* _async_update_data after its loop
Finish(c) ==
    IF ~c.one_success
    THEN [c EXCEPT !.pc = "raised",
                   !.exc = IF Len(c.exceptions) = 1
                           THEN c.exceptions[1]
                           ELSE "HomeAssistantError"]
    ELSE [c EXCEPT !.pc = "returned"]

\* the for statement asks the items iterator for the next entry, and the
\* body runs up to "await method()"
IterNext(c, d) ==
    LET ahead == {i \in Live(d) : i > c.pos} IN
    IF c.used # Used(d)
    THEN [c EXCEPT !.pc = "raised", !.exc = "RuntimeError"]
    ELSE IF ahead = {}
    THEN Finish(c)
    ELSE IF c.len = 0
    THEN [c EXCEPT !.pc = "raised", !.exc = "RuntimeError"]
    ELSE LET i == Least(ahead) IN
         [c EXCEPT !.pc = "await", !.pos = i, !.len = @ - 1,
                   !.key = d.entries[i].key, !.one_success = TRUE,
                   !.invoked = Append(@, d.entries[i].key)]

\* data[method_name] = result
SetData(data, name, r) ==
    IF \E i \in 1..Len(data) : data[i].name = name
    THEN [i \in 1..Len(data) |->
             IF data[i].name = name THEN [name |-> name, result |-> r]
             ELSE data[i]]
    ELSE Append(data, [name |-> name, result |-> r])

\* what a subscribe or unsubscribe call made while a poll awaits a method
\* does to the record of that poll
Noted(c, d1) ==
    IF c.pc # "await" THEN c
    ELSE [c EXCEPT !.kept = SelectSeq(@, LAMBDA k : Find(d1, k) # {}),
                   !.disturbed = @ \/ Keys(d1) # Keys(update_methods)]

\* async_added_to_hass: an entity with an update method subscribes
Subscribe(e) ==
    /\ UpdateMethodName(e) # None
    /\ LET d1 == SubscribeEntity(update_methods, e) IN
       /\ update_methods' = d1
       /\ cycle' = Noted(cycle, d1)
    /\ interest' = interest \cup {e}
    /\ lastCall' = [call |-> "subscribe_entity", entity |-> e, exc |-> "none",
                    subscribed |-> e \in interest,
                    unchanged |-> update_methods' = update_methods]
    /\ UNCHANGED <<devVars, stInput, stResult, evVars, idVars, cdVars, searchVars>>

\* async_will_remove_from_hass, and the callback async_added_to_hass left
\* with async_on_remove: each unsubscribes the entity
Unsubscribe(e) ==
    /\ LET r == UnsubscribeEntity(update_methods, e) IN
       /\ update_methods' = r.map
       /\ cycle' = Noted(cycle, r.map)
       /\ interest' = IF r.exc = "none" THEN interest \ {e} ELSE interest
       /\ lastCall' = [call |-> "unsubscribe_entity", entity |-> e,
                       exc |-> r.exc, subscribed |-> e \in interest,
                       unchanged |-> r.map = update_methods]
    /\ UNCHANGED <<devVars, stInput, stResult, evVars, idVars, cdVars, searchVars>>

\* _async_update_data is called and runs to its first await or to its end
StartCycle ==
    /\ cycle.pc \in {"idle", "returned", "raised"}
    /\ cycle' = IF Used(update_methods) = 0
                THEN [IdleCycle EXCEPT !.pc = "returned"]
                ELSE IterNext([IdleCycle EXCEPT
                                  !.used = Used(update_methods),
                                  !.len = Used(update_methods),
                                  !.keys0 = Keys(update_methods),
                                  !.kept = Keys(update_methods)],
                              update_methods)
    /\ UNCHANGED <<update_methods, interest, lastCall>>
    /\ UNCHANGED <<devVars, stInput, stResult, evVars, idVars, cdVars, searchVars>>

ReturnValues == {"value"}
MethodErrors == {"TimeoutError"}

\* the awaited method is over: its result is stored and the loop goes on
Resume(r) ==
    LET c1 == [cycle EXCEPT
                  !.data = SetData(@, cycle.key, r),
                  !.outcomes = Append(@, [name |-> cycle.key, result |-> r]),
                  !.exceptions = IF r.raised THEN Append(@, r.value) ELSE @]
    IN  /\ cycle' = IterNext(c1, update_methods)
        /\ UNCHANGED <<update_methods, interest, lastCall>>
        /\ UNCHANGED <<devVars, stInput, stResult, evVars, idVars, cdVars, searchVars>>

MethodReturns ==
    /\ cycle.pc = "await"
    /\ \E v \in ReturnValues : Resume([raised |-> FALSE, value |-> v])

MethodRaises ==
    /\ cycle.pc = "await"
    /\ \E x \in MethodErrors : Resume([raised |-> TRUE, value |-> x])

InitCoordinator ==
    /\ InitDevice
    /\ InitDecoders
    /\ NoSearch
    /\ NoIdentity
    /\ NoCodec
    /\ NoCoordinator

NextCoordinator ==
    \/ \E e \in Entities : Subscribe(e)
    \/ \E e \in Entities : Unsubscribe(e)
    \/ StartCycle
    \/ MethodReturns
    \/ MethodRaises

SpecCoordinator == InitCoordinator /\ [][NextCoordinator]_vars

\* C35 (SpecCoordinator): a call of unsubscribe_entity for an entity that is
\* not subscribed raises no error and leaves _update_methods as it was.
C35_RepeatUnsubscribe ==
    (lastCall.call = "unsubscribe_entity" /\ ~lastCall.subscribed) =>
        /\ lastCall.exc = "none"
        /\ lastCall.unchanged

AllRaised(c) == \A i \in 1..Len(c.outcomes) : c.outcomes[i].result.raised

\* C36 (SpecCoordinator): _async_update_data returns data only if nothing is
\* subscribed or at least one method succeeded; when every method it called
\* raised, it raises that exception if there is one, HomeAssistantError
\* otherwise.
C36_AllFailedRaises ==
    /\ cycle.pc = "returned" =>
           \/ cycle.outcomes = <<>>
           \/ ~AllRaised(cycle)
    /\ (cycle.pc = "raised" /\ cycle.exc # "RuntimeError") =>
           /\ cycle.outcomes # <<>>
           /\ AllRaised(cycle)
           /\ cycle.exc = IF Len(cycle.outcomes) = 1
                          THEN cycle.outcomes[1].result.value
                          ELSE "HomeAssistantError"

NoRepeat(q) == \A i, j \in 1..Len(q) : q[i] = q[j] => i = j
Only(q, S) == LET In(x) == x \in S IN SelectSeq(q, In)

\* what a finished poll must have done for the method names in "names":
\* called each once, in their order, and returned a map with each result
Polled(c, names) ==
    /\ c.pc = "returned"
    /\ NoRepeat(c.invoked)
    /\ Only(c.invoked, SeqRange(names)) = names
    /\ c.data = c.outcomes
    /\ [i \in 1..Len(c.data) |-> c.data[i].name] = c.invoked

\* C38 (SpecCoordinator): a finished poll has called every method name that
\* was subscribed from its start to its end exactly once, in subscription
\* order, has called no name twice, and has returned a map that holds for
\* each name it called the value returned or the exception raised.
C38_EachMethodOnce ==
    cycle.pc \in {"returned", "raised"} => Polled(cycle, cycle.kept)

\* a poll during which no method name was added to or removed from
\* _update_methods does what C38 says for the names subscribed at its start
UndisturbedPoll ==
    (cycle.pc \in {"returned", "raised"} /\ ~cycle.disturbed) =>
        Polled(cycle, cycle.keys0)

\* C39 (SpecCoordinator): _update_methods holds no empty list and no entity
\* twice in a list, and its keys are the update methods of the entities
\* whose last completed call was subscribe_entity.
C39_MapWellFormed ==
    /\ \A i \in Live(update_methods) :
          /\ update_methods.entries[i].entities # <<>>
          /\ NoRepeat(update_methods.entries[i].entities)
    /\ NoRepeat(Keys(update_methods))
    /\ SeqRange(Keys(update_methods)) = {UpdateMethodName(e) : e \in interest}

\* the last of two sensors was unsubscribed while the name text stays
C39_Witness ==
    /\ lastCall.call = "unsubscribe_entity"
    /\ lastCall.exc = "none"
    /\ lastCall.entity = "temperature"
    /\ ~lastCall.unchanged
    /\ interest = {"name"}
    /\ Keys(update_methods) = << Some("update_printer_info") >>

(***************************************************************************)
(* The request gate with reset_name among the callers.  reset_name carries *)
(* no decorator: it reads the serial number, and awaits change_name, which *)
(* takes the lock.                                                          *)
(***************************************************************************)
\* an identity reply that carries the serial number "S1"
SerialPayload == Put(IdentityPayload, 25, <<83, 49>>)

\* the device object after update_printer_info has read that reply
KnownPrinter == _apply_printer_info(NewPrinter, 1, 1, SerialPayload).dev

InitGate ==
    /\ dev \in {NewPrinter, KnownPrinter}
    /\ InitTasks
    /\ InitDecoders
    /\ NoSearch
    /\ NoIdentity
    /\ NoCodec
    /\ NoCoordinator

\* Task c calls reset_name
ResetName(c) ==
    /\ pc[c] = "idle"
    /\ IF dev.serial = None \/ dev.serial = Some(<<>>)
       THEN /\ pc' = [pc EXCEPT ![c] = "done"]
            /\ outcome' = [outcome EXCEPT ![c] = "ValueError"]
            /\ UNCHANGED <<req, op, lockVars, sock, transport, queue, payload,
                           parsed, responses, result, dev, histVars, decVars>>
       ELSE Call(c, "reset_name")

\* the calls of the tasks: t1 the locate switch or reset_name, t2 the
\* refresh of the identity, t3 reset_name
GateOps(c) ==
    CASE c = "t1" -> {"start_locating", "reset_name"}
      [] c = "t2" -> {"update_printer_info"}
      [] OTHER -> {"reset_name"}

NextGate ==
    \E c \in Tasks :
        \/ \E o \in GateOps(c) \ {"reset_name"} : Call(c, o)
        \/ "reset_name" \in GateOps(c) /\ ResetName(c)
        \/ AcquireAfterWait(c)
        \/ CancelWaiter(c)
        \/ WaiterCancelled(c)
        \/ \E how \in {"ok", "endpoint fails", "sendto fails"} : EndpointReady(c, how)
        \/ \E d \in DeviceDatagrams(req[c]) : Deliver(c, d)
        \/ ReadPayload(c)
        \/ Timeout(c)
        \/ CancelExchange(c)

SpecGate == InitGate /\ [][NextGate]_vars

\* The event loop runs a task whose future was resolved or cancelled.
FairGate ==
    \A c \in Tasks :
        /\ WF_vars(AcquireAfterWait(c))
        /\ WF_vars(WaiterCancelled(c))

FairSpecGate == SpecGate /\ FairGate

InExchange(c) == pc[c] \in {"endpoint", "await", "read"}

\* every exchange terminates
ExchangesEnd == \A c \in Tasks : InExchange(c) ~> ~InExchange(c)

\* C37 (FairSpecGate): if every exchange terminates, every caller of a
\* guarded operation, or of reset_name, that waits for the lock leaves the
\* wait (it takes the lock, or its task was cancelled) and its call ends.
C37_NoDeadlock ==
    ExchangesEnd => \A c \in Tasks : (pc[c] = "lock_wait") ~> (pc[c] = "done")

\* a reset_name call that had to wait for the lock has taken it and sent
\* its change_name request while another caller waits behind it
C37_Witness ==
    \E c, w \in Tasks :
        /\ op[c] = "reset_name"
        /\ pc[c] = "read"
        /\ locked
        /\ pc[w] = "lock_wait"
        /\ \E x \in Tasks : pc[x] = "done" /\ outcome[x] = "return"
====
